---- MODULE Spec2Model ----
(***************************************************************************)
(* Model of the backend-systems-intelligence-studio analysis core:         *)
(*   - api/log_parser.py    parse_line, parse_logs, create_error_pattern,   *)
(*                          group_errors                                    *)
(*   - api/code_analyzer.py detect_language, analyze_java_kotlin,           *)
(*                          analyze_python, analyze_code                    *)
(* Text is modelled character by character: a Python str is a TLA+ string,  *)
(* and every regular expression of the source is written as a syntax tree   *)
(* that a small matcher interprets the way Python's re module does.         *)
(***************************************************************************)
EXTENDS Integers, Sequences, FiniteSets, TLC

VARIABLES
    \* ---- log pipeline (parse_logs, then group_errors) ----
    lines,                \* raw_logs.split("\n")
    idx,                  \* number of lines the loop of parse_logs has consumed
    entries,              \* entries: the LogEntry records emitted so far
    current_entry,        \* the entry in progress, or None
    current_stack_trace,  \* the trace buffer
    result,               \* the list returned by group_errors
    pc,                   \* position of the pipeline
    \* ---- fingerprinting (create_error_pattern on two messages) ----
    msgA, msgB, srcAB, patA, patB, fpc,
    \* ---- code scanner (analyze_code and the language passes) ----
    code_lines,           \* code.split("\n")
    language,             \* the pass being run
    i_line,               \* number of lines the scan loop has consumed
    findings,             \* findings emitted so far
    scan,                 \* the scan-time state of the pass (its local variables)
    analysis,             \* the AnalysisResult returned by analyze_code, or None
    spc,                  \* position of the scanner
    \* ---- callers of the analysis core ----
    runs,                 \* the analyze_code calls that have returned, oldest first
    llm,                  \* the running analyze_with_llm call: its position and locals
    tool,                 \* the last call of a tool operation and how it ended
    store,                \* MemStorage: its analyses and the value last returned
    calls                 \* the invocations in progress side by side, each with its locals

logvars  == <<lines, idx, entries, current_entry, current_stack_trace, result, pc>>
fpvars   == <<msgA, msgB, srcAB, patA, patB, fpc>>
scanvars == <<code_lines, language, i_line, findings, scan, analysis, spc>>
toolvars == <<tool, store, calls>>
svcvars  == <<runs, llm, toolvars>>
vars     == <<logvars, fpvars, scanvars, svcvars>>

\* Python's None: a value that no str of the model equals
None == "\fNone"

---------------------------------------------------------------------------
(* Characters and strings                                                  *)

Char(s, i) == SubSeq(s, i, i)

Digits   == {"0", "1", "2", "3", "4", "5", "6", "7", "8", "9"}
LowerStr == "abcdefghijklmnopqrstuvwxyz"
UpperStr == "ABCDEFGHIJKLMNOPQRSTUVWXYZ"
Lowers   ==
    {"a", "b", "c", "d", "e", "f", "g", "h", "i", "j", "k", "l", "m", "n", "o", "p", "q", "r", "s", "t", "u", "v", "w", "x", "y", "z"}
Uppers   ==
    {"A", "B", "C", "D", "E", "F", "G", "H", "I", "J", "K", "L", "M", "N", "O", "P", "Q", "R", "S", "T", "U", "V", "W", "X", "Y", "Z"}
WordChars ==
    {"_",
     "0", "1", "2", "3", "4", "5", "6", "7", "8", "9",
     "a", "b", "c", "d", "e", "f", "g", "h", "i", "j", "k", "l", "m", "n", "o", "p", "q", "r", "s", "t", "u", "v", "w", "x", "y", "z",
     "A", "B", "C", "D", "E", "F", "G", "H", "I", "J", "K", "L", "M", "N", "O", "P", "Q", "R", "S", "T", "U", "V", "W", "X", "Y", "Z"}
\* what str.strip() removes and what \s matches
Whitespace == {" ", "\t", "\n", "\r"}

\* the printable ASCII characters in code point order: 32 (space) to 95, and
\* 97 to 126 (the grave accent, 96, cannot be written in a TLA+ string and
\* occurs in no text of the model)
AsciiLowStr  == " !\"#$%&'()*+,-./0123456789:;<=>?@ABCDEFGHIJKLMNOPQRSTUVWXYZ[\\]^_"
AsciiHighStr == "abcdefghijklmnopqrstuvwxyz{|}~"

\* ord(c): control characters (tab, newline) sort before every printable one
Ord(c) ==
    IF c = "\t" THEN 9 ELSE IF c = "\n" THEN 10 ELSE IF c = "\r" THEN 13
    ELSE IF \E k \in 1..Len(AsciiLowStr) : Char(AsciiLowStr, k) = c
         THEN 31 + (CHOOSE k \in 1..Len(AsciiLowStr) : Char(AsciiLowStr, k) = c)
         ELSE 96 + (CHOOSE k \in 1..Len(AsciiHighStr) : Char(AsciiHighStr, k) = c)

\* chr(n) for 32 <= n <= 95 and 97 <= n <= 126
Chr(n) == IF n <= 95 THEN Char(AsciiLowStr, n - 31) ELSE Char(AsciiHighStr, n - 96)

\* str.upper() and str.lower() of one character
UpperChar(c) ==
    IF c \in Lowers THEN Char(UpperStr, CHOOSE k \in 1..26 : Char(LowerStr, k) = c) ELSE c
LowerChar(c) ==
    IF c \in Uppers THEN Char(LowerStr, CHOOSE k \in 1..26 : Char(UpperStr, k) = c) ELSE c

RECURSIVE MapChars(_, _, _)
MapChars(s, k, up) ==
    IF k > Len(s) THEN ""
    ELSE (IF up THEN UpperChar(Char(s, k)) ELSE LowerChar(Char(s, k))) \o MapChars(s, k + 1, up)
Upper(s) == MapChars(s, 1, TRUE)
Lower(s) == MapChars(s, 1, FALSE)

\* Python's < on str: code point by code point, a proper prefix is smaller
RECURSIVE StrLessFrom(_, _, _)
StrLessFrom(a, b, k) ==
    IF k > Len(b) THEN FALSE
    ELSE IF k > Len(a) THEN TRUE
    ELSE IF Char(a, k) = Char(b, k) THEN StrLessFrom(a, b, k + 1)
    ELSE Ord(Char(a, k)) < Ord(Char(b, k))
StrLess(a, b) == StrLessFrom(a, b, 1)

\* str.lstrip(), str.rstrip(), str.strip()
RECURSIVE LStrip(_)
LStrip(s) ==
    IF Len(s) > 0 /\ Char(s, 1) \in Whitespace THEN LStrip(SubSeq(s, 2, Len(s))) ELSE s
RECURSIVE RStrip(_)
RStrip(s) ==
    IF Len(s) > 0 /\ Char(s, Len(s)) \in Whitespace THEN RStrip(SubSeq(s, 1, Len(s) - 1)) ELSE s
Strip(s) == RStrip(LStrip(s))

\* str.startswith(p)
StartsWith(s, p) == Len(p) <= Len(s) /\ SubSeq(s, 1, Len(p)) = p

\* position of the first occurrence of the non-empty string p in s at or after k, 0 if none
RECURSIVE FindFrom(_, _, _)
FindFrom(s, p, k) ==
    IF k + Len(p) - 1 > Len(s) THEN 0
    ELSE IF SubSeq(s, k, k + Len(p) - 1) = p THEN k
    ELSE FindFrom(s, p, k + 1)
Contains(s, p) == FindFrom(s, p, 1) > 0

\* s.replace(old, new, 1): the FIRST occurrence of the text old, wherever it is
ReplaceFirst(s, old, new) ==
    LET k == FindFrom(s, old, 1) IN
    IF Len(old) = 0 \/ k = 0 THEN s
    ELSE SubSeq(s, 1, k - 1) \o new \o SubSeq(s, k + Len(old), Len(s))

\* s.replace(old, new): every occurrence of the non-empty text old, left to right
RECURSIVE ReplaceText(_, _, _)
ReplaceText(s, old, new) ==
    LET k == FindFrom(s, old, 1) IN
    IF k = 0 THEN s
    ELSE SubSeq(s, 1, k - 1) \o new \o ReplaceText(SubSeq(s, k + Len(old), Len(s)), old, new)

\* s.count(c) for a one-character c
RECURSIVE CountChar(_, _)
CountChar(s, c) ==
    IF Len(s) = 0 THEN 0
    ELSE (IF Char(s, 1) = c THEN 1 ELSE 0) + CountChar(SubSeq(s, 2, Len(s)), c)

\* sep.join(parts)
RECURSIVE Join(_, _)
Join(sep, parts) ==
    IF Len(parts) = 0 THEN ""
    ELSE IF Len(parts) = 1 THEN parts[1]
    ELSE parts[1] \o sep \o Join(sep, Tail(parts))

\* s.split(sep) for a one-character sep: always at least one piece
RECURSIVE Split(_, _)
Split(s, sep) ==
    LET k == FindFrom(s, sep, 1) IN
    IF k = 0 THEN <<s>>
    ELSE <<SubSeq(s, 1, k - 1)>> \o Split(SubSeq(s, k + 1, Len(s)), sep)

---------------------------------------------------------------------------
(* Regular expressions (Python's re), as syntax trees                      *)

ReLit(s)        == [t |-> "lit", s |-> s]          \* the text s
ReILit(s)       == [t |-> "ilit", s |-> Lower(s)]  \* the text s under re.IGNORECASE
ReIn(cs)        == [t |-> "in", cs |-> cs]         \* one character of the set cs
ReNotIn(cs)     == [t |-> "notin", cs |-> cs]      \* one character outside cs
ReDot           == ReNotIn({"\n"})                   \* .
ReCat(rs)       == [t |-> "seq", rs |-> rs]        \* r1 r2 ...
ReAlt(rs)       == [t |-> "alt", rs |-> rs]        \* r1 | r2 | ...
ReRep(r, lo, hi) == [t |-> "rep", r |-> r, lo |-> lo, hi |-> hi]  \* r{lo,hi}; hi = -1: no limit
ReStar(r)       == ReRep(r, 0, -1)
RePlus(r)       == ReRep(r, 1, -1)
ReOpt(r)        == ReRep(r, 0, 1)
ReWordB         == [t |-> "wordb"]                 \* \b
ReBol           == [t |-> "bol"]                   \* ^ (without re.MULTILINE)
ReEol           == [t |-> "eol"]                   \* $ (without re.MULTILINE)
ReEolM          == [t |-> "eolm"]                  \* $ under re.MULTILINE
ReAny           == ReNotIn({})                       \* [\s\S]
ReD             == ReIn(Digits)                      \* \d
ReW             == ReIn(WordChars)                   \* \w
ReS             == ReIn(Whitespace)                  \* \s

IsWordAt(s, k) == k >= 1 /\ k <= Len(s) /\ Char(s, k) \in WordChars

\* Ends(re, s, i): every position j such that re matches s[i..j-1]
RECURSIVE Ends(_, _, _)
RECURSIVE RepEnds(_, _, _, _)
Ends(re, s, i) ==
    CASE re.t = "lit" ->
           IF i + Len(re.s) - 1 <= Len(s) /\ SubSeq(s, i, i + Len(re.s) - 1) = re.s
           THEN {i + Len(re.s)} ELSE {}
      [] re.t = "ilit" ->
           IF i + Len(re.s) - 1 <= Len(s) /\ Lower(SubSeq(s, i, i + Len(re.s) - 1)) = re.s
           THEN {i + Len(re.s)} ELSE {}
      [] re.t = "in" ->
           IF i <= Len(s) /\ Char(s, i) \in re.cs THEN {i + 1} ELSE {}
      [] re.t = "notin" ->
           IF i <= Len(s) /\ Char(s, i) \notin re.cs THEN {i + 1} ELSE {}
      [] re.t = "seq" ->
           IF Len(re.rs) = 0 THEN {i}
           ELSE UNION {Ends(ReCat(Tail(re.rs)), s, j) : j \in Ends(Head(re.rs), s, i)}
      [] re.t = "alt" ->
           UNION {Ends(re.rs[k], s, i) : k \in DOMAIN re.rs}
      [] re.t = "rep" -> RepEnds(re, s, {i}, 0)
      [] re.t = "wordb" ->
           IF IsWordAt(s, i - 1) # IsWordAt(s, i) THEN {i} ELSE {}
      [] re.t = "bol" -> IF i = 1 THEN {i} ELSE {}
      [] re.t = "eol" ->
           IF i = Len(s) + 1 \/ (i = Len(s) /\ Char(s, i) = "\n") THEN {i} ELSE {}
      [] re.t = "eolm" ->
           IF i = Len(s) + 1 \/ (i <= Len(s) /\ Char(s, i) = "\n") THEN {i} ELSE {}
\* from: the positions reached after exactly k repetitions
RepEnds(re, s, from, k) ==
    IF from = {} THEN {}
    ELSE (IF k >= re.lo THEN from ELSE {})
         \cup (IF k = re.hi THEN {}
               ELSE RepEnds(re, s, (UNION {Ends(re.r, s, j) : j \in from}) \ from, k + 1))

SetMax(T) == CHOOSE m \in T : \A n \in T : n <= m
SetMin(T) == CHOOSE m \in T : \A n \in T : m <= n

\* re.match(re, s): a match at the start of s
Match(re, s) == Ends(re, s, 1) # {}
\* the start of the leftmost match at or after k, 0 if there is none
RECURSIVE SearchFrom(_, _, _)
SearchFrom(re, s, k) ==
    IF k > Len(s) + 1 THEN 0
    ELSE IF Ends(re, s, k) # {} THEN k
    ELSE SearchFrom(re, s, k + 1)
\* re.search(re, s) as a truth value
Search(re, s) == SearchFrom(re, s, 1) > 0

\* re.sub(re, repl, s) for patterns whose match at a given start is the longest
\* one (greedy quantifiers with nothing after them that a shorter match would
\* satisfy) and never empty: every pattern passed to re.sub in the source
RECURSIVE SubFrom(_, _, _, _)
SubFrom(re, repl, s, k) ==
    LET b == SearchFrom(re, s, k) IN
    IF b = 0 THEN SubSeq(s, k, Len(s))
    ELSE LET e == SetMax(Ends(re, s, b)) IN
         SubSeq(s, k, b - 1) \o repl \o SubFrom(re, repl, s, e)
Sub(re, repl, s) == SubFrom(re, repl, s, 1)

\* re.sub(re, repl, s) for a pattern whose only quantifier is lazy and whose
\* match is never empty: the match at a given start is the shortest one
RECURSIVE SubLazyFrom(_, _, _, _)
SubLazyFrom(re, repl, s, k) ==
    LET b == SearchFrom(re, s, k) IN
    IF b = 0 THEN SubSeq(s, k, Len(s))
    ELSE LET e == SetMin(Ends(re, s, b)) IN
         SubSeq(s, k, b - 1) \o repl \o SubLazyFrom(re, repl, s, e)
SubLazy(re, repl, s) == SubLazyFrom(re, repl, s, 1)

\* the text of the leftmost match of re in s (group 0), for a pattern whose match
\* at a given start is unique or the longest one; "" when there is no match
MatchedText(re, s) ==
    LET b == SearchFrom(re, s, 1) IN
    IF b = 0 THEN "" ELSE SubSeq(s, b, SetMax(Ends(re, s, b)) - 1)

\* s.replace(old, new): every occurrence, left to right, old one character long
RECURSIVE ReplaceAll(_, _, _)
ReplaceAll(s, old, new) ==
    IF Len(s) = 0 THEN ""
    ELSE (IF Char(s, 1) = old THEN new ELSE Char(s, 1)) \o ReplaceAll(SubSeq(s, 2, Len(s)), old, new)

Min(a, b) == IF a <= b THEN a ELSE b

---------------------------------------------------------------------------
(* api/log_parser.py: the line classifier                                  *)

D2 == ReRep(ReD, 2, 2)
D3 == ReRep(ReD, 3, 3)
D4 == ReRep(ReD, 4, 4)

\* ^(\d{4}-\d{2}-\d{2}T\d{2}:\d{2}:\d{2}(?:\.\d{3})?Z?)
ISO_TIMESTAMP ==
    ReCat(<<ReBol, D4, ReLit("-"), D2, ReLit("-"), D2, ReLit("T"), D2, ReLit(":"), D2,
            ReLit(":"), D2, ReOpt(ReCat(<<ReLit("."), D3>>)), ReOpt(ReLit("Z"))>>)
\* ^(\d{4}-\d{2}-\d{2}\s+\d{2}:\d{2}:\d{2}(?:\.\d{3})?)
COMMON_TIMESTAMP ==
    ReCat(<<ReBol, D4, ReLit("-"), D2, ReLit("-"), D2, RePlus(ReS), D2, ReLit(":"), D2,
            ReLit(":"), D2, ReOpt(ReCat(<<ReLit("."), D3>>))>>)
\* \b(DEBUG|INFO|WARN(?:ING)?|ERROR|FATAL|CRITICAL)\b with re.IGNORECASE
LEVEL_PATTERN ==
    ReCat(<<ReWordB,
            ReAlt(<<ReILit("DEBUG"), ReILit("INFO"),
                    ReCat(<<ReILit("WARN"), ReOpt(ReILit("ING"))>>),
                    ReILit("ERROR"), ReILit("FATAL"), ReILit("CRITICAL")>>),
            ReWordB>>)
\* \[([^\]]+)\]
SOURCE_PATTERN == ReCat(<<ReLit("["), RePlus(ReNotIn({"]"})), ReLit("]")>>)
\* ^\s+at\s+
STACK_TRACE == ReCat(<<ReBol, RePlus(ReS), ReLit("at"), RePlus(ReS)>>)
\* ^\s*Caused by: with re.IGNORECASE
CAUSED_BY == ReCat(<<ReBol, ReStar(ReS), ReILit("Caused by:")>>)

normalize_level(level) ==
    LET normalized == Upper(level) IN
    IF normalized \in {"DEBUG", "INFO", "ERROR", "FATAL"} THEN normalized
    ELSE IF normalized \in {"WARN", "WARNING"} THEN "WARN"
    ELSE IF normalized = "CRITICAL" THEN "FATAL"
    ELSE "INFO"

\* parse_line, from the source tag on: w2 is working_line after the level was
\* removed, src the text SOURCE_PATTERN matched ("" if none)
ParseSource(timestamp, level, w2, src) ==
    [message |-> IF src # "" THEN Strip(ReplaceFirst(w2, src, "")) ELSE Strip(w2),
     is_stack_trace |-> FALSE,
     timestamp |-> timestamp,
     level |-> level,
     source |-> IF src # "" THEN SubSeq(src, 2, Len(src) - 1) ELSE None]

\* w2 = working_line.replace(level_match.group(0), "", 1).strip()
AfterLevel(timestamp, level, w2) ==
    ParseSource(timestamp, level, w2, MatchedText(SOURCE_PATTERN, w2))

\* parse_line, from the level on: w1 is working_line after the timestamp was
\* removed, lvl the text LEVEL_PATTERN matched ("" if none)
ParseLevel(timestamp, w1, lvl) ==
    AfterLevel(timestamp,
               IF lvl # "" THEN normalize_level(lvl) ELSE None,
               IF lvl # "" THEN Strip(ReplaceFirst(w1, lvl, "")) ELSE w1)

AfterTimestamp(timestamp, w1) == ParseLevel(timestamp, w1, MatchedText(LEVEL_PATTERN, w1))

\* parse_line, from the timestamp on: iso and common are the texts the two
\* timestamp patterns matched ("" if none); the common one is tried only when
\* the ISO one did not match
ParseTimestamp(line, iso, common) ==
    AfterTimestamp(
        IF iso # "" THEN iso
        ELSE IF common # "" THEN ReplaceAll(common, " ", "T") \o "Z"
        ELSE None,
        IF iso # "" THEN Strip(SubSeq(line, Len(iso) + 1, Len(line)))
        ELSE IF common # "" THEN Strip(SubSeq(line, Len(common) + 1, Len(line)))
        ELSE line)

\* parse_line(line): the dict it returns
parse_line(line) ==
    IF Match(STACK_TRACE, line) \/ Match(CAUSED_BY, line)
    THEN [message |-> Strip(line), is_stack_trace |-> TRUE,
          timestamp |-> None, level |-> None, source |-> None]
    ELSE ParseTimestamp(line, MatchedText(ISO_TIMESTAMP, line),
                        MatchedText(COMMON_TIMESTAMP, line))

---------------------------------------------------------------------------
(* api/log_parser.py: the entry assembler (parse_logs)                     *)

\* current_entry = None
NoEntry == [none |-> TRUE]

\* datetime.utcnow().isoformat() + "Z": the clock reading, one fixed instant
UtcNow == "2026-01-01T00:00:00.000000Z"

\* the local state of one parse_logs call
ParseState(es, ce, cst) == [entries |-> es, current_entry |-> ce, current_stack_trace |-> cst]
ParseStart == ParseState(<<>>, NoEntry, <<>>)

\* the LogEntry built from the entry in progress ce and the trace buffer
MakeLogEntry(id, ce, trace) ==
    [id |-> id,
     timestamp |-> IF ce.timestamp # None THEN ce.timestamp ELSE UtcNow,
     level |-> IF ce.level # None THEN ce.level ELSE "INFO",
     message |-> ce.message,
     source |-> ce.source,
     stackTrace |-> IF Len(trace) > 0 THEN Join("\n", trace) ELSE None]

\* finalize_entry with the closed entry put at the front of the list
finalize_entry_front(st) ==
    ParseState(
        IF st.current_entry # NoEntry /\ st.current_entry.message # ""
        THEN <<MakeLogEntry(Len(st.entries) + 1, st.current_entry, st.current_stack_trace)>>
             \o st.entries
        ELSE st.entries,
        NoEntry, <<>>)

\* finalize_entry(): ids are uuid4 values, modelled as the emission number
finalize_entry(st) ==
    ParseState(
        IF st.current_entry # NoEntry /\ st.current_entry.message # ""
        THEN Append(st.entries,
                    MakeLogEntry(Len(st.entries) + 1, st.current_entry, st.current_stack_trace))
        ELSE st.entries,
        NoEntry, <<>>)

\* which branch of the loop body a line takes, parsed being parse_line(line)
BranchOf(st, line, parsed) ==
    IF Strip(line) = "" THEN "blank"
    ELSE IF parsed.is_stack_trace THEN "stack_trace"
    ELSE IF parsed.timestamp # None \/ parsed.level # None THEN "start"
    ELSE IF st.current_entry # NoEntry
         THEN (IF StartsWith(line, "  ") \/ StartsWith(line, "\t")
               THEN "continuation_trace" ELSE "continuation_message")
    ELSE "synthesized"
LineBranch(st, line) == BranchOf(st, line, parse_line(line))

\* a loop body whose start branch drops the entry in progress
BranchEffectStartDrops(st, line, parsed, branch) ==
    CASE branch = "blank" -> st
      [] branch = "stack_trace" ->
           [st EXCEPT !.current_stack_trace = Append(@, Strip(line))]
      [] branch = "start" ->
           [st EXCEPT !.current_stack_trace = <<>>,
                      !.current_entry =
               [timestamp |-> parsed.timestamp, level |-> parsed.level,
                source |-> parsed.source, message |-> parsed.message]]
      [] branch = "continuation_trace" ->
           [st EXCEPT !.current_stack_trace = Append(@, Strip(line))]
      [] branch = "continuation_message" ->
           [st EXCEPT !.current_entry.message = @ \o " " \o parsed.message]
      [] branch = "synthesized" ->
           [st EXCEPT !.current_entry =
               [timestamp |-> UtcNow, level |-> "INFO",
                source |-> None, message |-> parsed.message]]

\* a loop body in which a blank line closes the entry in progress
BranchEffectBlankCloses(st, line, parsed, branch) ==
    CASE branch = "blank" -> finalize_entry(st)
      [] branch \in {"stack_trace", "continuation_trace"} ->
           [st EXCEPT !.current_stack_trace = Append(@, Strip(line))]
      [] branch = "start" ->
           [finalize_entry(st) EXCEPT !.current_entry =
               [timestamp |-> parsed.timestamp, level |-> parsed.level,
                source |-> parsed.source, message |-> parsed.message]]
      [] branch = "continuation_message" ->
           [st EXCEPT !.current_entry.message = @ \o " " \o parsed.message]
      [] branch = "synthesized" ->
           [st EXCEPT !.current_entry =
               [timestamp |-> UtcNow, level |-> "INFO",
                source |-> None, message |-> parsed.message]]
\* what the branch does to the local state
BranchEffect(st, line, parsed, branch) ==
    CASE branch = "blank" -> st
      [] branch = "stack_trace" ->
           [st EXCEPT !.current_stack_trace = Append(@, Strip(line))]
      [] branch = "start" ->
           [finalize_entry(st) EXCEPT !.current_entry =
               [timestamp |-> parsed.timestamp, level |-> parsed.level,
                source |-> parsed.source, message |-> parsed.message]]
      [] branch = "continuation_trace" ->
           [st EXCEPT !.current_stack_trace = Append(@, Strip(line))]
      [] branch = "continuation_message" ->
           [st EXCEPT !.current_entry.message = @ \o " " \o parsed.message]
      [] branch = "synthesized" ->
           [st EXCEPT !.current_entry =
               [timestamp |-> UtcNow, level |-> "INFO",
                source |-> None, message |-> parsed.message]]

\* the body of "for line in lines"
LoopBodyParsed(st, line, parsed) ==
    BranchEffect(st, line, parsed, BranchOf(st, line, parsed))
LoopBody(st, line) == LoopBodyParsed(st, line, parse_line(line))

\* parse_logs on already split lines: the loop, then the final finalize_entry()
\* (next is the state after line k, computed once and handed on as a value)
RECURSIVE ParseLoop(_, _, _)
ParseLoop(st, ls, k) ==
    IF k > Len(ls) THEN st
    ELSE CHOOSE r \in {ParseLoop(next, ls, k + 1) : next \in {LoopBody(st, ls[k])}} : TRUE
parse_logs_lines(ls) == finalize_entry(ParseLoop(ParseStart, ls, 1)).entries
parse_logs(raw_logs) == parse_logs_lines(Split(raw_logs, "\n"))

---------------------------------------------------------------------------
(* api/log_parser.py: fingerprints and groups                              *)

HexChars == Digits \cup {"a", "b", "c", "d", "e", "f", "A", "B", "C", "D", "E", "F"}
Hex(n) == ReRep(ReIn(HexChars), n, n)
D13 == ReRep(ReD, 1, 3)

\* #\d: only the first digit after '#' is masked
HashIdReOneDigit == ReCat(<<ReLit("#"), ReD>>)
\* #\d+
HashIdRe == ReCat(<<ReLit("#"), RePlus(ReD)>>)
\* \b\d{4,}\b
BareNumRe == ReCat(<<ReWordB, ReRep(ReD, 4, -1), ReWordB>>)
\* [a-f0-9]{8}-[a-f0-9]{4}-[a-f0-9]{4}-[a-f0-9]{4}-[a-f0-9]{12} with re.IGNORECASE
UuidRe == ReCat(<<Hex(8), ReLit("-"), Hex(4), ReLit("-"), Hex(4), ReLit("-"), Hex(4),
                  ReLit("-"), Hex(12)>>)
\* \d{4}-\d{2}-\d{2}T?\d{2}:\d{2}:\d{2}
TimestampRe == ReCat(<<D4, ReLit("-"), D2, ReLit("-"), D2, ReOpt(ReLit("T")), D2,
                       ReLit(":"), D2, ReLit(":"), D2>>)
\* \d{1,3}\.\d{1,3}\.\d{1,3}\.\d{1,3}
IpRe == ReCat(<<D13, ReLit("."), D13, ReLit("."), D13, ReLit("."), D13>>)

PatternLimit == 100

\* the five substitutions, in the order of the source
create_error_pattern(message, source) ==
    LET p1 == Sub(HashIdRe, "#ID", message)
        p2 == Sub(BareNumRe, "NUM", p1)
        p3 == Sub(UuidRe, "UUID", p2)
        p4 == Sub(TimestampRe, "TIMESTAMP", p3)
        p5 == Sub(IpRe, "IP", p4)
    IN (IF source = None \/ source = "" THEN "unknown" ELSE source)
       \o ":" \o SubSeq(p5, 1, Min(PatternLimit, Len(p5)))

\* a filter that lets warnings through
IsErrorLevelWithWarn(log) == log.level \in {"ERROR", "FATAL", "WARN"}
\* error_logs = [log for log in logs if log.level in ("ERROR", "FATAL")]
IsErrorLevel(log) == log.level \in {"ERROR", "FATAL"}
error_logs(logs) == SelectSeq(logs, IsErrorLevel)

\* groups: the dict, as the list of its values in insertion order
AddToGroups(groups, log) ==
    LET pattern == create_error_pattern(log.message, log.source) IN
    IF \E k \in DOMAIN groups : groups[k].pattern = pattern
    THEN [k \in DOMAIN groups |->
            IF groups[k].pattern = pattern
            THEN [groups[k] EXCEPT !.logs = Append(@, log)] ELSE groups[k]]
    ELSE Append(groups, [pattern |-> pattern, logs |-> <<log>>])
RECURSIVE GroupLoop(_, _, _)
GroupLoop(groups, els, k) ==
    IF k > Len(els) THEN groups ELSE GroupLoop(AddToGroups(groups, els[k]), els, k + 1)
BuildGroups(logs) == GroupLoop(<<>>, error_logs(logs), 1)

\* sorted(group["logs"], key=lambda x: x.timestamp): stable, so a log is placed
\* after every log whose timestamp is not greater
\* an unstable placement: a log goes before the logs of equal timestamp
RECURSIVE InsertByTimestampUnstable(_, _)
InsertByTimestampUnstable(sorted, x) ==
    IF Len(sorted) = 0 THEN <<x>>
    ELSE IF ~StrLess(Head(sorted).timestamp, x.timestamp) THEN <<x>> \o sorted
    ELSE <<Head(sorted)>> \o InsertByTimestampUnstable(Tail(sorted), x)
RECURSIVE InsertByTimestamp(_, _)
InsertByTimestamp(sorted, x) ==
    IF Len(sorted) = 0 THEN <<x>>
    ELSE IF StrLess(x.timestamp, Head(sorted).timestamp) THEN <<x>> \o sorted
    ELSE <<Head(sorted)>> \o InsertByTimestamp(Tail(sorted), x)
RECURSIVE SortByTimestampFrom(_, _, _)
SortByTimestampFrom(logs, k, acc) ==
    IF k > Len(logs) THEN acc
    ELSE SortByTimestampFrom(logs, k + 1, InsertByTimestamp(acc, logs[k]))
SortByTimestamp(logs) == SortByTimestampFrom(logs, 1, <<>>)

HighCount == 5
MediumCount == 2

\* the high threshold off by one
GroupSeverityOffByOne(logs) ==
    IF \E k \in DOMAIN logs : logs[k].level = "FATAL" THEN "critical"
    ELSE IF Len(logs) > HighCount THEN "high"
    ELSE IF Len(logs) >= MediumCount THEN "medium"
    ELSE "low"
GroupSeverity(logs) ==
    IF \E k \in DOMAIN logs : logs[k].level = "FATAL" THEN "critical"
    ELSE IF Len(logs) >= HighCount THEN "high"
    ELSE IF Len(logs) >= MediumCount THEN "medium"
    ELSE "low"

\* the ErrorGroup built for the i-th (0-based) value of the dict
MakeErrorGroup(i, group) ==
    LET sorted_logs == SortByTimestamp(group.logs) IN
    [id |-> i + 1,
     label |-> "Error Group " \o Chr(65 + i),
     count |-> Len(group.logs),
     severity |-> GroupSeverity(group.logs),
     firstOccurrence |-> sorted_logs[1].timestamp,
     lastOccurrence |-> sorted_logs[Len(sorted_logs)].timestamp,
     sampleMessage |-> sorted_logs[1].message,
     relatedLogIds |-> [k \in DOMAIN group.logs |-> group.logs[k].id]]

severity_order(sev) ==
    CASE sev = "critical" -> 0 [] sev = "high" -> 1 [] sev = "medium" -> 2 [] sev = "low" -> 3

\* the sort key (severity_order[x.severity], -x.count), compared as Python
\* compares tuples
GroupKeyLess(x, y) ==
    \/ severity_order(x.severity) < severity_order(y.severity)
    \/ /\ severity_order(x.severity) = severity_order(y.severity)
       /\ (0 - x.count) < (0 - y.count)

\* an unstable sort: an element is placed before the elements equal to it
RECURSIVE InsertByGroupKeyUnstable(_, _)
InsertByGroupKeyUnstable(sorted, x) ==
    IF Len(sorted) = 0 THEN <<x>>
    ELSE IF ~GroupKeyLess(Head(sorted), x) THEN <<x>> \o sorted
    ELSE <<Head(sorted)>> \o InsertByGroupKeyUnstable(Tail(sorted), x)
\* result.sort(key=...): stable
RECURSIVE InsertByGroupKey(_, _)
InsertByGroupKey(sorted, x) ==
    IF Len(sorted) = 0 THEN <<x>>
    ELSE IF GroupKeyLess(x, Head(sorted)) THEN <<x>> \o sorted
    ELSE <<Head(sorted)>> \o InsertByGroupKey(Tail(sorted), x)
RECURSIVE SortGroupsFrom(_, _, _)
SortGroupsFrom(gs, k, acc) ==
    IF k > Len(gs) THEN acc
    ELSE SortGroupsFrom(gs, k + 1, InsertByGroupKey(acc, gs[k]))
SortGroups(gs) == SortGroupsFrom(gs, 1, <<>>)

group_errors(logs) ==
    LET groups == BuildGroups(logs) IN
    SortGroups([k \in DOMAIN groups |-> MakeErrorGroup(k - 1, groups[k])])

---------------------------------------------------------------------------
(* The subsystems at rest: a specification runs one of them and leaves the  *)
(* variables of the others at these values                                 *)

LogIdle ==
    /\ lines = <<>> /\ idx = 0 /\ entries = <<>> /\ current_entry = NoEntry
    /\ current_stack_trace = <<>> /\ result = None /\ pc = "idle"
FpIdle ==
    /\ msgA = "" /\ msgB = "" /\ srcAB = None /\ patA = None /\ patB = None /\ fpc = "idle"
ScanIdle ==
    /\ code_lines = <<>> /\ language = None /\ i_line = 0 /\ findings = <<>>
    /\ scan = [none |-> TRUE] /\ analysis = None /\ spc = "idle"

ToolsIdle ==
    /\ tool = [op |-> "idle"]
    /\ store = [op |-> "idle"]
    /\ calls = <<>>

SvcIdle ==
    /\ runs = <<>>
    /\ llm = [pc |-> "idle"]
    /\ ToolsIdle

\* all sequences over the set T of length lo..hi
SeqsOf(T, lo, hi) == UNION {[1..n -> T] : n \in lo..hi}

---------------------------------------------------------------------------
(* group_errors applied to a list of LogEntry records                      *)

MaxLogs == 5

\* the entries a list is drawn from, without their ids: two messages that
\* differ only in the digits after '#', other messages, and every kind of level
LogKinds ==
    {[timestamp |-> "2024-01-01T10:00:05Z", level |-> "ERROR",
      message |-> "timeout #12", source |-> None, stackTrace |-> None],
     [timestamp |-> "2024-01-01T10:00:00Z", level |-> "ERROR",
      message |-> "timeout #7", source |-> None, stackTrace |-> None],
     [timestamp |-> "2024-01-01T10:00:03Z", level |-> "ERROR",
      message |-> "disk full", source |-> "db", stackTrace |-> None],
     [timestamp |-> "2024-01-01T10:00:01Z", level |-> "FATAL",
      message |-> "disk full", source |-> "db", stackTrace |-> None],
     [timestamp |-> "2024-01-01T10:00:02Z", level |-> "ERROR",
      message |-> "oom", source |-> None, stackTrace |-> None],
     [timestamp |-> "2024-01-01T10:00:04Z", level |-> "WARN",
      message |-> "timeout #12", source |-> None, stackTrace |-> None]}

\* a list of entries as parse_logs numbers them: the k-th entry has id k
WithIds(kinds) ==
    [k \in DOMAIN kinds |->
        [id |-> k, timestamp |-> kinds[k].timestamp, level |-> kinds[k].level,
         message |-> kinds[k].message, source |-> kinds[k].source,
         stackTrace |-> kinds[k].stackTrace]]

InitGroup ==
    /\ lines = <<>> /\ idx = 0 /\ current_entry = NoEntry /\ current_stack_trace = <<>>
    /\ entries \in {WithIds(ks) : ks \in SeqsOf(LogKinds, 0, MaxLogs)}
    /\ result = None
    /\ pc = "parsed"
    /\ FpIdle /\ ScanIdle /\ SvcIdle

\* group_errors(entries)
GroupErrors ==
    /\ pc = "parsed"
    /\ result' = group_errors(entries)
    /\ pc' = "done"
    /\ UNCHANGED <<lines, idx, entries, current_entry, current_stack_trace>>
    /\ UNCHANGED <<fpvars, scanvars, svcvars>>

NextGroup == GroupErrors
SpecGroup == InitGroup /\ [][NextGroup]_vars

---------------------------------------------------------------------------
(* parse_logs line by line, then group_errors on what it returns           *)

MaxLines == 3

\* the lines an input is made of: blank lines, structured lines that differ
\* only in timestamp and in the digits after '#', a stack frame, plain and
\* indented continuation lines, a line that is only a source tag, a line with
\* a level and no timestamp, a line that is a level and nothing else, a line
\* indented by one space
PaymentLine(ts, digits) ==
    ts \o " ERROR [PaymentService] Connection refused #" \o digits
PaymentLines ==
    {PaymentLine("2024-01-01T10:00:00Z", "4521"),
     PaymentLine("2024-01-01T10:00:05Z", "9983"),
     PaymentLine("2024-01-01T10:00:09.250", "7")}
LogLines ==
    PaymentLines \cup
    {"", "   ",
     "\tat com.app.Pay.run(Pay.java:42)",
     "retrying",
     "  detail",
     "[db]",
     "WARN low disk",
     "ERROR",
     " note"}

\* raw_logs.split("\n") is never empty
InitLog ==
    /\ lines \in SeqsOf(LogLines, 1, MaxLines)
    /\ idx = 0 /\ entries = <<>> /\ current_entry = NoEntry /\ current_stack_trace = <<>>
    /\ result = None
    /\ pc = "parse"
    /\ FpIdle /\ ScanIdle /\ SvcIdle

\* parse_line on each line of the model, computed once
ParsedLogLines == [l \in LogLines |-> parse_line(l)]

\* the local state of the running call, the line the loop is at, and
\* parsed = parse_line(line)
CurState == ParseState(entries, current_entry, current_stack_trace)
CurLine == lines[idx + 1]
CurParsed == ParsedLogLines[CurLine]
InLoop == pc = "parse" /\ idx < Len(lines)

\* the local state after a step
SetParseState(st) ==
    /\ entries' = st.entries
    /\ current_entry' = st.current_entry
    /\ current_stack_trace' = st.current_stack_trace

\* one iteration of "for line in lines"
LoopEffect ==
    /\ SetParseState(LoopBodyParsed(CurState, CurLine, CurParsed))
    /\ idx' = idx + 1
    /\ UNCHANGED <<lines, result, pc>>
    /\ UNCHANGED <<fpvars, scanvars, svcvars>>

\* the iteration, by the branch the line takes
BlankLine ==
    InLoop /\ BranchOf(CurState, CurLine, CurParsed) = "blank" /\ LoopEffect
StackTraceLine ==
    InLoop /\ BranchOf(CurState, CurLine, CurParsed) = "stack_trace" /\ LoopEffect
StartEntry ==
    InLoop /\ BranchOf(CurState, CurLine, CurParsed) = "start" /\ LoopEffect
ContinuationTrace ==
    InLoop /\ BranchOf(CurState, CurLine, CurParsed) = "continuation_trace" /\ LoopEffect
ContinuationMessage ==
    InLoop /\ BranchOf(CurState, CurLine, CurParsed) = "continuation_message" /\ LoopEffect
SynthesizedEntry ==
    InLoop /\ BranchOf(CurState, CurLine, CurParsed) = "synthesized" /\ LoopEffect

\* the finalize_entry() after the loop, and the return
EndOfInput ==
    /\ pc = "parse"
    /\ idx = Len(lines)
    /\ SetParseState(finalize_entry(CurState))
    /\ pc' = "parsed"
    /\ UNCHANGED <<lines, idx, result>>
    /\ UNCHANGED <<fpvars, scanvars, svcvars>>

NextLog ==
    \/ BlankLine
    \/ StackTraceLine
    \/ StartEntry
    \/ ContinuationTrace
    \/ ContinuationMessage
    \/ SynthesizedEntry
    \/ EndOfInput
    \/ GroupErrors
SpecLog == InitLog /\ [][NextLog]_vars

---------------------------------------------------------------------------
(* The claims about group_errors                                           *)

Range(f) == {f[k] : k \in DOMAIN f}

\* the entries of the input that are members of the group g
MembersOf(g) == {p \in DOMAIN entries : entries[p].id \in Range(g.relatedLogIds)}

\* C1: the groups returned by group_errors partition the ERROR/FATAL entries:
\* every related id is the id of an ERROR or FATAL entry, the id of every
\* ERROR/FATAL entry occurs exactly once in all the relatedLogIds together, and
\* every group's count is at least 1 and is the length of its relatedLogIds.
C1_GroupsPartitionErrors ==
    pc = "done" =>
        /\ \A k \in DOMAIN result : \A j \in DOMAIN result[k].relatedLogIds :
              \E p \in DOMAIN entries :
                  /\ entries[p].id = result[k].relatedLogIds[j]
                  /\ entries[p].level \in {"ERROR", "FATAL"}
        /\ \A p \in DOMAIN entries :
              entries[p].level \in {"ERROR", "FATAL"} =>
                  Cardinality({kj \in UNION {{<<k, j>> : j \in DOMAIN result[k].relatedLogIds} :
                                              k \in DOMAIN result} :
                                  result[kj[1]].relatedLogIds[kj[2]] = entries[p].id}) = 1
        /\ \A k \in DOMAIN result :
              /\ result[k].count >= 1
              /\ result[k].count = Len(result[k].relatedLogIds)

\* C1's case: several groups, one of them with several members, and an entry
\* that is no error beside them
C1_Witness ==
    /\ pc = "done"
    /\ Len(result) >= 2
    /\ \E k \in DOMAIN result : result[k].count >= 2
    /\ \E p \in DOMAIN entries : entries[p].level \notin {"ERROR", "FATAL"}

SeverityRank(sev) ==
    CASE sev = "critical" -> 0 [] sev = "high" -> 1 [] sev = "medium" -> 2 [] sev = "low" -> 3

\* the position in the input of the first entry of the group g
FirstSeen(g) == SetMin(MembersOf(g))

\* C2: the list is ordered by severity rank (critical, high, medium, low), then
\* by count descending; groups equal in both keep the order in which their
\* fingerprints first appeared in the input.
C2_GroupsOrdered ==
    pc = "done" =>
        \A k \in 1..Len(result) - 1 :
            LET a == result[k]
                b == result[k + 1]
            IN \/ SeverityRank(a.severity) < SeverityRank(b.severity)
               \/ /\ a.severity = b.severity
                  /\ a.count > b.count
               \/ /\ a.severity = b.severity
                  /\ a.count = b.count
                  /\ FirstSeen(a) < FirstSeen(b)

\* C2's case: three groups, two neighbours tied in severity and count and two
\* neighbours that differ
C2_Witness ==
    /\ pc = "done"
    /\ Len(result) >= 3
    /\ \E k \in 1..Len(result) - 1 :
          /\ result[k].severity = result[k + 1].severity
          /\ result[k].count = result[k + 1].count
    /\ \E k \in 1..Len(result) - 1 : result[k].severity # result[k + 1].severity

\* C3: a group is critical if a member is FATAL, whatever its count; otherwise
\* high from 5 members, medium from 2 to 4, low with 1.
C3_SeverityRule ==
    pc = "done" =>
        \A k \in DOMAIN result :
            LET g == result[k]
                fatal == \E p \in MembersOf(g) : entries[p].level = "FATAL"
            IN g.severity =
                 (IF fatal THEN "critical"
                  ELSE IF g.count >= 5 THEN "high"
                  ELSE IF g.count >= 2 /\ g.count <= 4 THEN "medium"
                  ELSE IF g.count = 1 THEN "low"
                  ELSE "undefined")

\* C3's case: a group of exactly 5 members, none of them FATAL
C3_Witness ==
    /\ pc = "done"
    /\ \E k \in DOMAIN result :
          /\ result[k].count = 5
          /\ result[k].severity = "high"

---------------------------------------------------------------------------
(* create_error_pattern applied to two messages that differ in one token,  *)
(* then group_errors applied to the two entries                            *)

\* instance-specific tokens, by masked kind
MaskedTokens ==
    [hash      |-> {"#4521", "#7", "#12"},
     num       |-> {"4521", "99830", "1234567"},
     uuid      |-> {"a1b2c3d4-e5f6-a7b8-c9d0-e1f2a3b4c5d6",
                    "0f9e8d7c-6b5a-4f3e-2d1c-0b9a8f7e6d5c",
                    "123e4567-e89b-12d3-a456-426614174000"},
     timestamp |-> {"2024-01-01T10:00:00", "2024-01-01T10:00:05", "2025-12-31T23:59:59"},
     ip        |-> {"10.0.0.1", "192.168.1.20", "8.8.8.8"}]
MaskedKinds == DOMAIN MaskedTokens
MessagePrefixes == {"timeout ", "conn to "}
MessageSuffixes == {"", " failed"}
PatternSources == {None, "db"}

InitPattern ==
    /\ LogIdle /\ ScanIdle /\ SvcIdle
    /\ \E kind \in MaskedKinds, pre \in MessagePrefixes, suf \in MessageSuffixes :
         \E ta \in MaskedTokens[kind], tb \in MaskedTokens[kind] :
            /\ msgA = pre \o ta \o suf
            /\ msgB = pre \o tb \o suf
    /\ srcAB \in PatternSources
    /\ patA = None /\ patB = None
    /\ fpc = "start"

\* create_error_pattern(msgA, srcAB)
PatternA ==
    /\ fpc = "start"
    /\ patA' = create_error_pattern(msgA, srcAB)
    /\ fpc' = "a"
    /\ UNCHANGED <<msgA, msgB, srcAB, patB, logvars, scanvars, svcvars>>

\* create_error_pattern(msgB, srcAB)
PatternB ==
    /\ fpc = "a"
    /\ patB' = create_error_pattern(msgB, srcAB)
    /\ fpc' = "b"
    /\ UNCHANGED <<msgA, msgB, srcAB, patA, logvars, scanvars, svcvars>>

\* the two messages as ERROR entries of the same source
PairEntries ==
    <<[id |-> 1, timestamp |-> "2024-01-01T10:00:00Z", level |-> "ERROR",
       message |-> msgA, source |-> srcAB, stackTrace |-> None],
      [id |-> 2, timestamp |-> "2024-01-01T10:00:05Z", level |-> "ERROR",
       message |-> msgB, source |-> srcAB, stackTrace |-> None]>>

\* group_errors on the two entries
GroupPair ==
    /\ fpc = "b"
    /\ result' = group_errors(PairEntries)
    /\ fpc' = "done"
    /\ UNCHANGED <<msgA, msgB, srcAB, patA, patB, scanvars, svcvars>>
    /\ UNCHANGED <<lines, idx, entries, current_entry, current_stack_trace, pc>>

NextPattern == PatternA \/ PatternB \/ GroupPair
SpecPattern == InitPattern /\ [][NextPattern]_vars

---------------------------------------------------------------------------
(* The claims about parse_logs                                             *)

\* what the claims compare of an entry: everything but its fresh id and its
\* possibly synthesized timestamp
EntryContent(e) ==
    [level |-> e.level, message |-> e.message, source |-> e.source, stackTrace |-> e.stackTrace]
ContentOf(es) == [k \in DOMAIN es |-> EntryContent(es[k])]

IsBlank(line) == Strip(line) = ""
NotBlank(line) == ~IsBlank(line)

\* C5: blank (empty or whitespace-only) lines change neither the number of
\* entries nor their level, message, source or stack trace: the text and the
\* text without its blank lines give the same entries, so any two texts that
\* differ only by inserted blank lines do.
C5_BlankLinesIgnored ==
    pc = "parsed" =>
        ContentOf(entries) = ContentOf(parse_logs_lines(SelectSeq(lines, NotBlank)))

\* C5's case: a blank line between a line that starts an entry and a line that
\* continues it
C5_Witness ==
    /\ pc = "parsed"
    /\ Len(lines) = 3
    /\ NotBlank(lines[1]) /\ IsBlank(lines[2]) /\ NotBlank(lines[3])
    /\ Len(entries) = 1
    /\ entries[1].message = "retrying retrying"

\* the line carries a timestamp or a level token
HasSignal(line) ==
    \/ Match(ISO_TIMESTAMP, line)
    \/ Match(COMMON_TIMESTAMP, line)
    \/ Search(LEVEL_PATTERN, line)

\* C6: for an input in which no line carries a timestamp or a level token,
\* parse_logs returns exactly one entry, of level INFO, when some line is not
\* blank, and the empty list when every line is blank.
C6_UnstructuredInputOneEntry ==
    (pc = "parsed" /\ \A k \in DOMAIN lines : ~HasSignal(lines[k])) =>
        IF \E k \in DOMAIN lines : NotBlank(lines[k])
        THEN Len(entries) = 1 /\ entries[1].level = "INFO"
        ELSE entries = <<>>

\* C7: two consecutive lines '<ISO timestamp> ERROR [PaymentService] Connection
\* refused #<digits>' give exactly 2 entries, both ERROR with source
\* PaymentService, and exactly 1 group, of count 2 and severity medium.
C7_PaymentScenario ==
    (pc = "done" /\ Len(lines) = 2 /\ lines[1] \in PaymentLines /\ lines[2] \in PaymentLines) =>
        /\ Len(entries) = 2
        /\ \A k \in 1..2 : entries[k].level = "ERROR" /\ entries[k].source = "PaymentService"
        /\ Len(result) = 1
        /\ result[1].count = 2
        /\ result[1].severity = "medium"

\* C7's case: the two lines of the scenario, different in timestamp and digits
C7_Witness ==
    /\ pc = "done"
    /\ lines = <<PaymentLine("2024-01-01T10:00:00Z", "4521"),
                 PaymentLine("2024-01-01T10:00:05Z", "9983")>>
    /\ Len(result) = 1

---------------------------------------------------------------------------
(* The claims about create_error_pattern                                   *)

\* C4: two messages of the same source that differ only in a token of one
\* masked kind (a #id, a bare integer of 4+ digits, a UUID, an ISO date-time,
\* a dotted-quad IP address) get the same fingerprint, and the two entries land
\* in one ErrorGroup.  Every pair of messages of SpecPattern is such a pair.
C4_SameFingerprint ==
    /\ fpc \in {"b", "done"} => patA = patB
    /\ fpc = "done" => Len(result) = 1 /\ result[1].count = 2

---------------------------------------------------------------------------
(* api/code_analyzer.py: findings                                          *)

RiskFinding(rule_id, severity, category, message, line, why_it_matters, suggested_fix) ==
    [rule_id |-> rule_id, severity |-> severity, category |-> category,
     message |-> message, line |-> line,
     why_it_matters |-> why_it_matters, suggested_fix |-> suggested_fix]

\* the local variables of a pass together with the findings list it appends to
AddFinding(st, f) == [st EXCEPT !.findings = Append(@, f)]

---------------------------------------------------------------------------
(* api/code_analyzer.py: analyze_python                                    *)

\* ^async\s+def\s
AsyncDefSpaceRe == ReCat(<<ReLit("async"), RePlus(ReS), ReLit("def"), ReS>>)
\* ^async\s+def
AsyncDefRe == ReCat(<<ReLit("async"), RePlus(ReS), ReLit("def")>>)
\* except\s+Exception\s*:
ExceptExceptionRe ==
    ReCat(<<ReLit("except"), RePlus(ReS), ReLit("Exception"), ReStar(ReS), ReLit(":")>>)
\* except\s+BaseException\s*:
ExceptBaseExceptionRe ==
    ReCat(<<ReLit("except"), RePlus(ReS), ReLit("BaseException"), ReStar(ReS), ReLit(":")>>)
\* ^except\s*:
BareExceptRe == ReCat(<<ReLit("except"), ReStar(ReS), ReLit(":")>>)
\* ^except
ExceptRe == ReLit("except")

\* the table of blocking primitives, in the order of the source
blocking_patterns ==
    <<[re |-> ReCat(<<ReLit("time.sleep"), ReStar(ReS), ReLit("(")>>),
       name |-> "time.sleep()"],
      [re |-> ReCat(<<ReLit("requests."),
                      ReAlt(<<ReLit("get"), ReLit("post"), ReLit("put"), ReLit("delete"),
                              ReLit("patch")>>),
                      ReStar(ReS), ReLit("(")>>),
       name |-> "requests.X()"],
      [re |-> ReCat(<<ReLit("urllib.request.urlopen"), ReStar(ReS), ReLit("(")>>),
       name |-> "urllib.request.urlopen()"],
      [re |-> ReCat(<<ReLit("open"), ReStar(ReS), ReLit("("), RePlus(ReNotIn({")"})),
                      ReLit(")"), ReLit(".read"), ReStar(ReS), ReLit("(")>>),
       name |-> "file.read()"],
      [re |-> ReCat(<<ReLit("subprocess."),
                      ReAlt(<<ReLit("run"), ReLit("call"), ReLit("check_output")>>),
                      ReStar(ReS), ReLit("(")>>),
       name |-> "subprocess blocking call"]>>

\* what the loop body reads off one line before it touches its state
PyFactsOf(line, trimmed) ==
    [trimmed      |-> trimmed,
     indent       |-> IF trimmed # "" THEN Len(line) - Len(LStrip(line)) ELSE 0,
     async_def_s  |-> Match(AsyncDefSpaceRe, trimmed),
     async_def    |-> Match(AsyncDefRe, trimmed),
     comment      |-> StartsWith(trimmed, "#"),
     starts_space |-> StartsWith(line, " "),
     broad        |-> Search(ExceptExceptionRe, trimmed) \/ Search(ExceptBaseExceptionRe, trimmed),
     bare         |-> Match(BareExceptRe, trimmed),
     is_except    |-> Match(ExceptRe, trimmed),
     blocking     |-> [k \in DOMAIN blocking_patterns |-> Search(blocking_patterns[k].re, trimmed)]]
PyFacts(line) == PyFactsOf(line, Strip(line))

PyStart ==
    [in_async_function |-> FALSE, async_function_indent |-> 0,
     in_except_block |-> FALSE, except_start_line |-> 0, except_indent |-> 0,
     findings |-> <<>>]

\* lines 218-220
PyAsyncStart(st, f) ==
    IF f.async_def_s
    THEN [st EXCEPT !.in_async_function = TRUE, !.async_function_indent = f.indent]
    ELSE st

\* lines 222-224
PyAsyncEnd(st, f) ==
    IF /\ st.in_async_function /\ f.indent <= st.async_function_indent
       /\ f.trimmed # "" /\ ~f.async_def /\ ~f.comment
       /\ ~f.starts_space
    THEN [st EXCEPT !.in_async_function = FALSE]
    ELSE st

\* lines 226-235
PyBroadExcept(st, f, line_num) ==
    IF f.broad
    THEN AddFinding(st, RiskFinding("PY_BROAD_EXCEPT", "MEDIUM", "error-handling",
            "Broad exception catch (except Exception)", line_num,
            "Catching Exception catches too many error types, hiding bugs and control flow issues.",
            "Catch specific exceptions like ValueError, IOError, or create custom exception types."))
    ELSE st

\* lines 237-246
PyBareExcept(st, f, line_num) ==
    IF f.bare
    THEN AddFinding(st, RiskFinding("PY_BARE_EXCEPT", "HIGH", "error-handling",
            "Bare except clause catches all exceptions including SystemExit and KeyboardInterrupt",
            line_num,
            "Bare except catches system signals, making the program difficult to terminate.",
            "Use 'except Exception:' at minimum, or better yet, catch specific exceptions."))
    ELSE st

\* lines 248-251
PyExceptStart(st, f, line_num) ==
    IF f.is_except
    THEN [st EXCEPT !.in_except_block = TRUE, !.except_start_line = line_num,
                    !.except_indent = f.indent]
    ELSE st

InExceptBody(t) == t # "" /\ ~StartsWith(t, "#") /\ ~StartsWith(t, "except")
\* [l.strip() for l in lines[except_start_line:i] if ...], with line_num = i + 1
block_content(ls, except_start_line, line_num) ==
    SelectSeq([k \in 1..(line_num - 1 - except_start_line) |->
                   Strip(ls[except_start_line + k])],
              InExceptBody)

PySilentExcept(st, content) ==
    IF content = <<"pass">>
    THEN AddFinding(st, RiskFinding("PY_SILENT_EXCEPT", "HIGH", "error-handling",
            "Silent exception handler (except: pass)", st.except_start_line,
            "Silently passing on exceptions hides errors and makes debugging impossible.",
            "Log the exception, re-raise, or handle appropriately."))
    ELSE st

\* lines 253-266
PyExceptEnd(st, f, ls, line_num) ==
    IF st.in_except_block /\ f.indent <= st.except_indent /\ line_num - 1 > st.except_start_line - 1
    THEN [PySilentExcept(st, block_content(ls, st.except_start_line, line_num))
             EXCEPT !.in_except_block = FALSE]
    ELSE st

PyBlockingFinding(k, line_num) ==
    RiskFinding("PY_BLOCKING_IN_ASYNC", "HIGH", "blocking",
        "Blocking call '" \o blocking_patterns[k].name \o "' in async function", line_num,
        "Blocking calls in async functions block the event loop, defeating async benefits.",
        "Use async alternative: asyncio.sleep(), aiohttp, aiofiles, asyncio.create_subprocess_exec()")

\* the inner loop over blocking_patterns, from the k-th pattern on
RECURSIVE PyBlockingFrom(_, _, _, _)
PyBlockingFrom(st, f, line_num, k) ==
    IF k > Len(blocking_patterns) THEN st
    ELSE PyBlockingFrom(IF f.blocking[k] THEN AddFinding(st, PyBlockingFinding(k, line_num))
                        ELSE st,
                        f, line_num, k + 1)

\* a scan that numbers the lines of blocking calls from 0
PyBlockingZeroBased(st, f, line_num) ==
    IF st.in_async_function THEN PyBlockingFrom(st, f, line_num - 1, 1) ELSE st
\* lines 268-287
PyBlocking(st, f, line_num) ==
    IF st.in_async_function THEN PyBlockingFrom(st, f, line_num, 1) ELSE st

\* the loop body of analyze_python on line line_num (= i + 1) with facts f
PyLineWith(st, ls, line_num, f) ==
    PyBlocking(
      PyExceptEnd(
        PyExceptStart(
          PyBareExcept(
            PyBroadExcept(
              PyAsyncEnd(PyAsyncStart(st, f), f),
              f, line_num),
            f, line_num),
          f, line_num),
        f, ls, line_num),
      f, line_num)

---------------------------------------------------------------------------
(* analyze_python applied to an 'async def' line followed by an indented   *)
(* body, with or without lines before it, one line per step                *)

MaxPyBody == 2

AsyncDefLine == "async def fetch():"
\* one call of each blocking primitive of the table
PyBlockingCalls ==
    {"time.sleep(1)", "r = requests.get(url)", "requests.post(url, json=d)",
     "requests.put(url)", "requests.delete(url)", "requests.patch(url)",
     "urllib.request.urlopen(url)", "data = open(path).read()",
     "subprocess.run(cmd)", "subprocess.call(cmd)", "out = subprocess.check_output(cmd)"}
PyIndent == "    "
PyBlockingLines == {PyIndent \o c : c \in PyBlockingCalls}
PyOtherBodyLines == {"    await asyncio.sleep(1)", "    # wait", "    x = 1"}
PyBodyLines == PyBlockingLines \cup PyOtherBodyLines
\* what may stand before the 'async def' line
PyPreambles ==
    {<<>>, <<"import time">>, <<"time.sleep(1)">>, <<"def warm():", "    time.sleep(1)">>}
PyLines ==
    PyBodyLines \cup {AsyncDefLine} \cup UNION {{pre[k] : k \in DOMAIN pre} : pre \in PyPreambles}

\* the lines of the snippets analyze_code is run on: none, prose, and lines of
\* each language
ScanLines ==
    {"", "hello world", AsyncDefLine, "    time.sleep(1)", "fun main() {", "public class A {",
     "catch (IOException e) {", "}", "const x = 1;", "fs.readFileSync(p);"}

\* lines of the snippets that are scanned again and again
RescanLines == {"suspend fun load() {", "    Thread.sleep(5)"}

\* lines of a module and of a class with an async function and a plain one
AsyncLines ==
    {AsyncDefLine, "    async def fetch(self):", "        x = 1", "# wait",
     "def run():", "    def run(self):", "    time.sleep(1)", "        time.sleep(1)"}
\* lines of a try statement with its handlers
ExceptLines ==
    {"try:", "    x()", "except ValueError:", "except KeyError:", "    pass", "", "y()"}

\* the facts of every line a scan can meet, computed once
PyLineFacts ==
    [l \in PyLines \cup ScanLines \cup RescanLines \cup AsyncLines \cup ExceptLines
        |-> PyFacts(l)]

python_line(st, ls, line_num) == PyLineWith(st, ls, line_num, PyLineFacts[ls[line_num]])

\* for i, line in enumerate(lines), from line number k on
RECURSIVE PyLoop(_, _, _)
PyLoop(st, ls, k) ==
    IF k > Len(ls) THEN st
    ELSE CHOOSE r \in {PyLoop(next, ls, k + 1) : next \in {python_line(st, ls, k)}} : TRUE
analyze_python_lines(ls) == PyLoop(PyStart, ls, 1).findings
analyze_python(code) == analyze_python_lines(Split(code, "\n"))

PyLocals(st) ==
    [in_async_function |-> st.in_async_function,
     async_function_indent |-> st.async_function_indent,
     in_except_block |-> st.in_except_block,
     except_start_line |-> st.except_start_line,
     except_indent |-> st.except_indent]
PyState(loc, fs) ==
    [in_async_function |-> loc.in_async_function,
     async_function_indent |-> loc.async_function_indent,
     in_except_block |-> loc.in_except_block,
     except_start_line |-> loc.except_start_line,
     except_indent |-> loc.except_indent,
     findings |-> fs]
SetPyState(st) == scan' = PyLocals(st) /\ findings' = st.findings

InitPython ==
    /\ LogIdle /\ FpIdle /\ SvcIdle
    /\ \E pre \in PyPreambles, body \in SeqsOf(PyBodyLines, 1, MaxPyBody) :
          code_lines = pre \o <<AsyncDefLine>> \o body
    /\ language = "python"
    /\ i_line = 0
    /\ findings = <<>>
    /\ scan = PyLocals(PyStart)
    /\ analysis = None
    /\ spc = "scan"

\* one iteration of the loop of analyze_python
PythonLine ==
    /\ spc = "scan" /\ language = "python"
    /\ i_line < Len(code_lines)
    /\ SetPyState(python_line(PyState(scan, findings), code_lines, i_line + 1))
    /\ i_line' = i_line + 1
    /\ UNCHANGED <<code_lines, language, analysis, spc, logvars, fpvars, svcvars>>

\* return findings
PassReturn ==
    /\ spc = "scan"
    /\ i_line = Len(code_lines)
    /\ spc' = "returned"
    /\ UNCHANGED <<code_lines, language, i_line, findings, scan, analysis, logvars, fpvars, svcvars>>

NextPython == PythonLine \/ PassReturn
SpecPython == InitPython /\ [][NextPython]_vars

---------------------------------------------------------------------------
(* The claims about the Python pass                                        *)

\* the line number of the 'async def' line of the snippet
AsyncDefAt == CHOOSE k \in DOMAIN code_lines : code_lines[k] = AsyncDefLine
FindingsAt(k) == {j \in DOMAIN findings : findings[j].line = k}
IsBlockingFinding(f, k) ==
    /\ f.rule_id = "PY_BLOCKING_IN_ASYNC" /\ f.severity = "HIGH"
    /\ f.category = "blocking" /\ f.line = k

---------------------------------------------------------------------------
(* api/code_analyzer.py: analyze_java_kotlin                               *)

\* the four request_handler_patterns
request_handler_patterns ==
    <<ReCat(<<ReLit("@"),
              ReAlt(<<ReLit("GetMapping"), ReLit("PostMapping"), ReLit("PutMapping"),
                      ReLit("DeleteMapping"), ReLit("RequestMapping"), ReLit("Controller")>>)>>),
      ReCat(<<ReLit("@"),
              ReAlt(<<ReLit("GET"), ReLit("POST"), ReLit("PUT"), ReLit("DELETE"), ReLit("Path")>>)>>),
      ReCat(<<ReLit("public"), RePlus(ReS), RePlus(ReW), RePlus(ReS),
              ReAlt(<<ReLit("doGet"), ReLit("doPost"), ReLit("service")>>),
              ReStar(ReS), ReLit("(")>>),
      ReCat(<<ReLit("suspend"), RePlus(ReS), ReLit("fun"), RePlus(ReS), RePlus(ReW),
              ReStar(ReDot), ReLit("Route")>>)>>
\* suspend\s+fun
SuspendFunRe == ReCat(<<ReLit("suspend"), RePlus(ReS), ReLit("fun")>>)
\* \.execute\s*\(
ExecuteRe == ReCat(<<ReLit(".execute"), ReStar(ReS), ReLit("(")>>)
\* Thread\.sleep\s*\(
ThreadSleepRe == ReCat(<<ReLit("Thread.sleep"), ReStar(ReS), ReLit("(")>>)
\* runBlocking\s*\{
RunBlockingRe == ReCat(<<ReLit("runBlocking"), ReStar(ReS), ReLit("{")>>)
\* catch\s*\(
CatchRe == ReCat(<<ReLit("catch"), ReStar(ReS), ReLit("(")>>)
\* //.*$ with re.MULTILINE
LineCommentRe == ReCat(<<ReLit("//"), ReStar(ReDot), ReEolM>>)
\* /\*[\s\S]*?\*/
BlockCommentRe == ReCat(<<ReLit("/*"), ReStar(ReAny), ReLit("*/")>>)
\* ^(catch|}\s*catch|\{|\})$
VacuousRe ==
    ReCat(<<ReAlt(<<ReLit("catch"), ReCat(<<ReLit("}"), ReStar(ReS), ReLit("catch")>>),
                    ReLit("{"), ReLit("}")>>),
            ReEol>>)
\* Response\s+\w+\s*=
ResponseRe == ReCat(<<ReLit("Response"), RePlus(ReS), RePlus(ReW), ReStar(ReS), ReLit("=")>>)
\* try\s*\(
TryWithRe == ReCat(<<ReLit("try"), ReStar(ReS), ReLit("(")>>)
\* \.body\s*\(\s*\)\s*\.string\s*\(   and   \.body\s*\(\s*\)\s*\.bytes\s*\(
BodyAccessRe(what) ==
    ReCat(<<ReLit(".body"), ReStar(ReS), ReLit("("), ReStar(ReS), ReLit(")"), ReStar(ReS),
            ReLit("." \o what), ReStar(ReS), ReLit("(")>>)

\* what the loop body reads off one line before it touches its state
JkFacts(line) ==
    [handler      |-> \E k \in DOMAIN request_handler_patterns :
                          Search(request_handler_patterns[k], line),
     suspend      |-> Search(SuspendFunRe, line),
     braces       |-> CountChar(line, "{") - CountChar(line, "}"),
     has_close    |-> Contains(line, "}"),
     execute      |-> Search(ExecuteRe, line),
     sleep        |-> Search(ThreadSleepRe, line),
     run_blocking |-> Search(RunBlockingRe, line),
     catch        |-> Search(CatchRe, line),
     response     |-> Search(ResponseRe, line),
     body         |-> Search(BodyAccessRe("string"), line) \/ Search(BodyAccessRe("bytes"), line)]

\* locals of which the findings list is the one the previous call returned
JkStartStale ==
    [in_catch_block |-> FALSE, catch_start_line |-> 0, catch_block_content |-> "",
     brace_depth |-> 0, in_suspend_function |-> FALSE, in_request_handler |-> FALSE,
     findings |-> IF runs = <<>> THEN <<>> ELSE runs[Len(runs)].analysis.findings]
\* lines 84-93: every local of the pass is created by the call
JkStart ==
    [in_catch_block |-> FALSE, catch_start_line |-> 0, catch_block_content |-> "",
     brace_depth |-> 0, in_suspend_function |-> FALSE, in_request_handler |-> FALSE,
     findings |-> <<>>]

\* lines 104-105
JkHandler(st, f) ==
    IF f.handler THEN [st EXCEPT !.in_request_handler = TRUE] ELSE st
\* lines 107-108
JkSuspend(st, f, lang) ==
    IF lang = "kotlin" /\ f.suspend THEN [st EXCEPT !.in_suspend_function = TRUE] ELSE st
\* lines 112-114, on the depth already updated
JkResetAtDepthZero(st) ==
    IF st.brace_depth = 0
    THEN [st EXCEPT !.in_request_handler = FALSE, !.in_suspend_function = FALSE]
    ELSE st
\* lines 110-114
JkBraces(st, f) == JkResetAtDepthZero([st EXCEPT !.brace_depth = @ + f.braces])

\* lines 117-126
JkExecute(st, f, lang, line_num) ==
    IF (st.in_request_handler \/ st.in_suspend_function) /\ f.execute
    THEN AddFinding(st, RiskFinding(Upper(lang) \o "_BLOCKING_IO", "HIGH", "blocking",
            "Blocking HTTP call in " \o
                (IF st.in_suspend_function THEN "suspend function" ELSE "request handler"),
            line_num,
            "Blocking calls in request handlers cause thread starvation and reduce throughput.",
            IF lang = "kotlin"
            THEN "Use async HTTP client (OkHttp enqueue, WebClient) or withContext(Dispatchers.IO)"
            ELSE "Use async HTTP client"))
    ELSE st
\* lines 128-137
JkThreadSleep(st, f, lang, line_num) ==
    IF (st.in_request_handler \/ st.in_suspend_function) /\ f.sleep
    THEN AddFinding(st, RiskFinding(Upper(lang) \o "_THREAD_SLEEP", "HIGH", "blocking",
            "Thread.sleep() in " \o
                (IF st.in_suspend_function THEN "suspend function" ELSE "server code"),
            line_num,
            "Thread.sleep blocks the thread, wasting resources and delaying other requests.",
            IF lang = "kotlin" THEN "Use delay() from kotlinx.coroutines instead"
            ELSE "Consider using ScheduledExecutorService"))
    ELSE st
\* lines 139-150
JkRunBlocking(st, f, lang, line_num) ==
    IF lang = "kotlin" /\ f.run_blocking /\ (st.in_suspend_function \/ st.in_request_handler)
    THEN AddFinding(st, RiskFinding("KT_RUNBLOCKING_MISUSE", "HIGH", "blocking",
            "runBlocking used inside suspend function or request handler", line_num,
            "runBlocking blocks the current thread, defeating the purpose of coroutines.",
            "Remove runBlocking and use suspend functions directly, or use coroutineScope {}"))
    ELSE st

\* lines 151-154
JkCatchStart(st, f, line_num) ==
    IF f.catch
    THEN [st EXCEPT !.in_catch_block = TRUE, !.catch_start_line = line_num,
                    !.catch_block_content = ""]
    ELSE st

\* lines 160-161
content_without_comments(content) ==
    SubLazy(BlockCommentRe, "", Sub(LineCommentRe, "", content))
IsStatement(t) == t # "" /\ ~StartsWith(t, "catch") /\ t \notin {"{", "}"}
StripAll(parts) == [k \in DOMAIN parts |-> Strip(parts[k])]
\* line 162
statements(content) ==
    SelectSeq(StripAll(Split(content_without_comments(content), ";")), IsStatement)
\* line 164
IsVacuous(stmts) ==
    Len(stmts) = 0 \/ (Len(stmts) = 1 /\ Match(VacuousRe, stmts[1]))

\* lines 164-173
JkEmptyCatch(st, lang, stmts) ==
    IF IsVacuous(stmts)
    THEN AddFinding(st, RiskFinding(Upper(lang) \o "_EMPTY_CATCH", "HIGH", "error-handling",
            "Empty catch block swallows exception", st.catch_start_line,
            "Silent exception handling hides bugs and makes debugging extremely difficult.",
            "Log the exception, rethrow, or handle appropriately. Never silently ignore."))
    ELSE st
\* lines 159-175, on the content already extended
JkCatchClose(st, f, lang) ==
    IF st.brace_depth <= 0 /\ f.has_close
    THEN [JkEmptyCatch(st, lang, statements(st.catch_block_content))
             EXCEPT !.in_catch_block = FALSE]
    ELSE st
\* lines 156-175
JkCatchBody(st, f, line, lang) ==
    IF st.in_catch_block
    THEN JkCatchClose([st EXCEPT !.catch_block_content = @ \o line \o "\n"], f, lang)
    ELSE st

Max(a, b) == IF a >= b THEN a ELSE b
\* '\n'.join(lines[max(0, i-3):i]), with line_num = i + 1
prev_lines(ls, line_num) == Join("\n", SubSeq(ls, Max(1, line_num - 3), line_num - 1))
\* lines 177-188
JkResourceLeak(st, f, ls, lang, line_num) ==
    IF lang = "java" /\ f.response /\ ~Search(TryWithRe, prev_lines(ls, line_num))
    THEN AddFinding(st, RiskFinding("JAVA_RESOURCE_LEAK", "HIGH", "error-handling",
            "HTTP Response not using try-with-resources", line_num,
            "Unclosed responses leak connections, eventually exhausting the connection pool.",
            "Wrap in try-with-resources: try (Response response = ...) { ... }"))
    ELSE st
\* lines 190-199
JkNullBody(st, f, lang, line_num) ==
    IF f.body
    THEN AddFinding(st, RiskFinding(Upper(lang) \o "_NULL_BODY_ACCESS", "MEDIUM", "safety",
            "Response body accessed without null check", line_num,
            "Response body can be null, causing NullPointerException in production.",
            IF lang = "kotlin" THEN "Use response.body?.string() with null-safe operator"
            ELSE "Check if response.body() != null before calling .string()"))
    ELSE st

\* the loop body of analyze_java_kotlin on line line_num (= i + 1) with facts f
JkLineWith(st, ls, line_num, lang, f) ==
    JkNullBody(
      JkResourceLeak(
        JkCatchBody(
          JkCatchStart(
            JkRunBlocking(
              JkThreadSleep(
                JkExecute(
                  JkBraces(JkSuspend(JkHandler(st, f), f, lang), f),
                  f, lang, line_num),
                f, lang, line_num),
              f, lang, line_num),
            f, line_num),
          f, ls[line_num], lang),
        f, ls, lang, line_num),
      f, lang, line_num)

---------------------------------------------------------------------------
(* analyze_java_kotlin applied to snippets built of try and catch lines,   *)
(* one line per step                                                       *)

MaxJavaLines == 4

CatchLine == "catch (IOException e) {"
CloseCatchLine == "} catch (IOException e) {"
\* a comment that mentions a call on the response body
BodyCommentLine == "  // r.body().string();"
JavaLines == {"try {", "  foo();", "}", CloseCatchLine, CatchLine, "class A {", BodyCommentLine}

\* lines of a controller class: an annotation on a line of its own, a
\* function signature that matches no pattern, a suspend function, and calls
HandlerLines ==
    {"class A {", "@GetMapping", "String get() {", "  call.execute();", "}",
     "suspend fun load() {", "    Thread.sleep(5)"}
\* lines around a response assignment
LeakLines ==
    {"Response r = c.get();", "try (Body b = open()) {", "  foo();", "}"}

\* the facts of every line a scan can meet, computed once
JkLineFacts ==
    [l \in JavaLines \cup ScanLines \cup RescanLines \cup HandlerLines \cup LeakLines
        |-> JkFacts(l)]

java_kotlin_line(st, ls, line_num, lang) ==
    JkLineWith(st, ls, line_num, lang, JkLineFacts[ls[line_num]])

\* for i, line in enumerate(lines), from line number k on
RECURSIVE JkLoop(_, _, _, _)
JkLoop(st, ls, k, lang) ==
    IF k > Len(ls) THEN st
    ELSE CHOOSE r \in {JkLoop(next, ls, k + 1, lang) :
                          next \in {java_kotlin_line(st, ls, k, lang)}} : TRUE
analyze_java_kotlin_lines(ls, lang) == JkLoop(JkStart, ls, 1, lang).findings
analyze_java_kotlin(code, lang) == analyze_java_kotlin_lines(Split(code, "\n"), lang)

JkLocals(st) ==
    [in_catch_block |-> st.in_catch_block, catch_start_line |-> st.catch_start_line,
     catch_block_content |-> st.catch_block_content, brace_depth |-> st.brace_depth,
     in_suspend_function |-> st.in_suspend_function,
     in_request_handler |-> st.in_request_handler]
JkState(loc, fs) ==
    [in_catch_block |-> loc.in_catch_block, catch_start_line |-> loc.catch_start_line,
     catch_block_content |-> loc.catch_block_content, brace_depth |-> loc.brace_depth,
     in_suspend_function |-> loc.in_suspend_function,
     in_request_handler |-> loc.in_request_handler,
     findings |-> fs]
SetJkState(st) == scan' = JkLocals(st) /\ findings' = st.findings

InitJava ==
    /\ LogIdle /\ FpIdle /\ SvcIdle
    /\ code_lines \in SeqsOf(JavaLines, 1, MaxJavaLines)
    /\ language \in {"java", "kotlin"}
    /\ i_line = 0
    /\ findings = <<>>
    /\ scan = JkLocals(JkStart)
    /\ analysis = None
    /\ spc = "scan"

\* one iteration of the loop of analyze_java_kotlin
JavaKotlinLine ==
    /\ spc = "scan" /\ language \in {"java", "kotlin"}
    /\ i_line < Len(code_lines)
    /\ SetJkState(java_kotlin_line(JkState(scan, findings), code_lines, i_line + 1, language))
    /\ i_line' = i_line + 1
    /\ UNCHANGED <<code_lines, language, analysis, spc, logvars, fpvars, svcvars>>

NextJava == JavaKotlinLine \/ PassReturn
SpecJava == InitJava /\ [][NextJava]_vars

---------------------------------------------------------------------------
(* The claims about the Java/Kotlin pass                                   *)

\* line k opens a catch clause whose block is empty: the catch line, alone or
\* after the closing brace of the try block, followed by a line holding only '}'
EmptyCatchAt(k) ==
    /\ k + 1 \in DOMAIN code_lines
    /\ code_lines[k] \in {CatchLine, CloseCatchLine}
    /\ code_lines[k + 1] = "}"
\* the brace depth after the first k lines
RECURSIVE DepthAfter(_)
DepthAfter(k) ==
    IF k = 0 THEN 0
    ELSE DepthAfter(k - 1) + CountChar(code_lines[k], "{") - CountChar(code_lines[k], "}")
\* the braces of the snippet balance: no '}' without its '{', none left open
Balanced ==
    /\ \A k \in DOMAIN code_lines : DepthAfter(k) >= 0
    /\ DepthAfter(Len(code_lines)) = 0
IsEmptyCatchFinding(f, k) ==
    /\ f.rule_id = "JAVA_EMPTY_CATCH" /\ f.severity = "HIGH"
    /\ f.category = "error-handling" /\ f.line = k

\* C9: scanning a Java snippet that contains a catch clause with an empty
\* block yields exactly one HIGH error-handling empty-catch finding for that
\* clause, at the number of the catch line, wherever the clause occurs: at
\* depth zero or nested, the catch keyword first on its line or after '}'.
\* The snippets looked at are those whose braces balance.
C9_EmptyCatchFound ==
    (spc = "returned" /\ language = "java" /\ Balanced) =>
        \A k \in DOMAIN code_lines :
            EmptyCatchAt(k) =>
                Cardinality({j \in DOMAIN findings : IsEmptyCatchFinding(findings[j], k)}) = 1

---------------------------------------------------------------------------
(* api/code_analyzer.py: detect_language                                   *)

ReWords(ws) == ReAlt([k \in DOMAIN ws |-> ReLit(ws[k])])

\* ^(def |class |import |from |async def |if __name__|@\w+)
PythonHeadRe ==
    ReAlt(<<ReLit("def "), ReLit("class "), ReLit("import "), ReLit("from "),
            ReLit("async def "), ReLit("if __name__"), ReCat(<<ReLit("@"), RePlus(ReW)>>)>>)
\* :\s*\n\s+(pass|return|raise|print)
PythonBlockRe ==
    ReCat(<<ReLit(":"), ReStar(ReS), ReLit("\n"), RePlus(ReS),
            ReWords(<<"pass", "return", "raise", "print">>)>>)
\* self\.\w+
PythonSelfRe == ReCat(<<ReLit("self."), RePlus(ReW)>>)
\* \bfun\s+\w+
KotlinFunRe == ReCat(<<ReWordB, ReLit("fun"), RePlus(ReS), RePlus(ReW)>>)
\* \bsuspend\s+fun
KotlinSuspendRe == ReCat(<<ReWordB, ReLit("suspend"), RePlus(ReS), ReLit("fun")>>)
\* \brunBlocking\s*\{
KotlinRunBlockingRe == ReCat(<<ReWordB, ReLit("runBlocking"), ReStar(ReS), ReLit("{")>>)
\* \bval\s+\w+\s*[:=]
KotlinValRe ==
    ReCat(<<ReWordB, ReLit("val"), RePlus(ReS), RePlus(ReW), ReStar(ReS), ReIn({":", "="})>>)
\* \bfun\s
KotlinFunSpaceRe == ReCat(<<ReWordB, ReLit("fun"), ReS>>)
\* \bpublic\s+(class|interface|enum|static|void|String)
JavaPublicRe ==
    ReCat(<<ReWordB, ReLit("public"), RePlus(ReS),
            ReWords(<<"class", "interface", "enum", "static", "void", "String">>)>>)
\* \bprivate\s+(static|final|void|String|int|boolean)
JavaPrivateRe ==
    ReCat(<<ReWordB, ReLit("private"), RePlus(ReS),
            ReWords(<<"static", "final", "void", "String", "int", "boolean">>)>>)
\* \b(implements|extends)\s+\w+
JavaInheritRe ==
    ReCat(<<ReWordB, ReWords(<<"implements", "extends">>), RePlus(ReS), RePlus(ReW)>>)
\* @(Override|Service|Controller|Autowired)
JavaAnnotationRe ==
    ReCat(<<ReLit("@"), ReWords(<<"Override", "Service", "Controller", "Autowired">>)>>)
\* \b(function|const|let|var|=>|async|await|require|import|export)\b
JsKeywordRe ==
    ReCat(<<ReWordB,
            ReWords(<<"function", "const", "let", "var", "=>", "async", "await", "require",
                      "import", "export">>),
            ReWordB>>)
\* \bconsole\.\w+
JsConsoleRe == ReCat(<<ReWordB, ReLit("console."), RePlus(ReW)>>)

\* lines 26-28
LooksPython(code) ==
    \/ Match(PythonHeadRe, Strip(code))
    \/ Search(PythonBlockRe, code)
    \/ Search(PythonSelfRe, code)
\* lines 31-34
LooksKotlin(code) ==
    \/ Search(KotlinFunRe, code)
    \/ Search(KotlinSuspendRe, code)
    \/ Search(KotlinRunBlockingRe, code)
    \/ (Search(KotlinValRe, code) /\ Search(KotlinFunSpaceRe, code))
\* lines 37-40
LooksJava(code) ==
    \/ Search(JavaPublicRe, code)
    \/ Search(JavaPrivateRe, code)
    \/ Search(JavaInheritRe, code)
    \/ Search(JavaAnnotationRe, code)
\* lines 43-44
LooksJavascript(code) == Search(JsKeywordRe, code) \/ Search(JsConsoleRe, code)

\* a chain that tests the Java cues before the Kotlin cues
detect_language_java_first(code) ==
    IF LooksPython(code) THEN "python"
    ELSE IF LooksJava(code) THEN "java"
    ELSE IF LooksKotlin(code) THEN "kotlin"
    ELSE IF LooksJavascript(code) THEN "javascript"
    ELSE "unknown"
\* lines 23-47
detect_language(code) ==
    IF LooksPython(code) THEN "python"
    ELSE IF LooksKotlin(code) THEN "kotlin"
    ELSE IF LooksJava(code) THEN "java"
    ELSE IF LooksJavascript(code) THEN "javascript"
    ELSE "unknown"

---------------------------------------------------------------------------
(* api/code_analyzer.py: analyze_javascript                                *)

blocking_methods ==
    <<"readFileSync", "writeFileSync", "execSync", "spawnSync", "existsSync", "statSync",
      "readdirSync">>
\* catch\s*\([^)]*\)\s*\{\s*\}
JsEmptyCatchRe ==
    ReCat(<<ReLit("catch"), ReStar(ReS), ReLit("("), ReStar(ReNotIn({")"})), ReLit(")"),
            ReStar(ReS), ReLit("{"), ReStar(ReS), ReLit("}")>>)

JsBlockingFinding(method, line_num) ==
    RiskFinding("JS_BLOCKING_CALL", "HIGH", "blocking",
        "Blocking call '" \o method \o "' detected", line_num,
        "Blocking calls freeze the event loop, causing latency spikes and preventing concurrent request handling.",
        "Use async version: " \o ReplaceText(method, "Sync", "") \o " with await or callbacks.")

\* the inner loop over blocking_methods, from the k-th method on (lines 58-68)
RECURSIVE JsBlockingFrom(_, _, _, _)
JsBlockingFrom(fs, line, line_num, k) ==
    IF k > Len(blocking_methods) THEN fs
    ELSE JsBlockingFrom(IF Contains(line, blocking_methods[k])
                        THEN Append(fs, JsBlockingFinding(blocking_methods[k], line_num))
                        ELSE fs,
                        line, line_num, k + 1)
\* lines 70-79
JsEmptyCatch(fs, line, line_num) ==
    IF Search(JsEmptyCatchRe, line)
    THEN Append(fs, RiskFinding("JS_EMPTY_CATCH", "HIGH", "error-handling",
            "Empty catch block swallows exception", line_num,
            "Silent exception handling hides bugs and makes debugging extremely difficult.",
            "Log the exception, rethrow, or handle appropriately. Never silently ignore."))
    ELSE fs
\* the loop body of analyze_javascript
javascript_line(fs, line, line_num) ==
    JsEmptyCatch(JsBlockingFrom(fs, line, line_num, 1), line, line_num)
RECURSIVE JsLoop(_, _, _)
JsLoop(fs, ls, k) ==
    IF k > Len(ls) THEN fs
    ELSE CHOOSE r \in {JsLoop(next, ls, k + 1) : next \in {javascript_line(fs, ls[k], k)}} : TRUE
analyze_javascript_lines(ls) == JsLoop(<<>>, ls, 1)
analyze_javascript(code) == analyze_javascript_lines(Split(code, "\n"))

---------------------------------------------------------------------------
(* api/code_analyzer.py: analyze_code, one step per statement group        *)

MaxScanLines == 2

AnalysisResult(lang, parser_used, lines_scanned, fs, limitations) ==
    [language |-> lang, parser_used |-> parser_used, lines_scanned |-> lines_scanned,
     findings |-> fs, limitations |-> limitations]

\* a result that always carries the limitation
LimitationsAlways(lang) == <<"Could not detect language; analysis may be incomplete.">>
\* lines 311-313
LimitationsOf(lang) ==
    IF lang = "unknown"
    THEN <<"Could not detect language; analysis may be incomplete.">>
    ELSE <<>>

\* analyze_code(code) is entered with code = "\n".join(code_lines)
InitScan ==
    /\ LogIdle /\ FpIdle /\ SvcIdle
    /\ code_lines \in SeqsOf(ScanLines, 1, MaxScanLines)
    /\ language = None
    /\ i_line = 0
    /\ findings = <<>>
    /\ scan = [none |-> TRUE]
    /\ analysis = None
    /\ spc = "start"

\* lines 292-293
DetectLanguage ==
    /\ spc = "start"
    /\ language' = detect_language(Join("\n", code_lines))
    /\ scan' = [lines_scanned |-> Len(Split(Join("\n", code_lines), "\n"))]
    /\ spc' = "detected"
    /\ UNCHANGED <<code_lines, i_line, findings, analysis, logvars, fpvars, svcvars>>

\* what each branch of lines 295-309 leaves behind: findings and parser_used
SetPass(fs, parser_used) ==
    /\ findings' = fs
    /\ scan' = [lines_scanned |-> scan.lines_scanned, parser_used |-> parser_used]
    /\ i_line' = Len(code_lines)
    /\ spc' = "analyzed"
    /\ UNCHANGED <<code_lines, language, analysis, logvars, fpvars, svcvars>>

RunJavascript ==
    /\ spc = "detected" /\ language = "javascript"
    /\ SetPass(analyze_javascript_lines(code_lines), "Regex-based structural analysis")
RunJava ==
    /\ spc = "detected" /\ language = "java"
    /\ SetPass(analyze_java_kotlin_lines(code_lines, "java"), "Regex-based structural analysis")
RunKotlin ==
    /\ spc = "detected" /\ language = "kotlin"
    /\ SetPass(analyze_java_kotlin_lines(code_lines, "kotlin"), "Regex-based structural analysis")
RunPython ==
    /\ spc = "detected" /\ language = "python"
    /\ SetPass(analyze_python_lines(code_lines), "Regex-based structural analysis")
NoParser ==
    /\ spc = "detected" /\ language \notin {"javascript", "java", "kotlin", "python"}
    /\ SetPass(<<>>, "No parser available")

\* lines 311-321
BuildResult ==
    /\ spc = "analyzed"
    /\ analysis' = AnalysisResult(language, scan.parser_used, scan.lines_scanned, findings,
                                  LimitationsOf(language))
    /\ spc' = "done"
    /\ UNCHANGED <<code_lines, language, i_line, findings, scan, logvars, fpvars, svcvars>>

NextScan ==
    \/ DetectLanguage
    \/ RunJavascript \/ RunJava \/ RunKotlin \/ RunPython \/ NoParser
    \/ BuildResult
SpecScan == InitScan /\ [][NextScan]_vars

---------------------------------------------------------------------------
(* The claims about analyze_code                                           *)

\* C10: analyze_code never raises (whatever detect_language returns, one branch
\* of the dispatch applies and the call runs on to build its result), its
\* limitations list is non-empty exactly when the language is 'unknown', and
\* then (in particular for the empty string) the findings list is empty and
\* parser_used is 'No parser available'.
C10_UnknownLanguage ==
    /\ spc \in {"start", "detected", "analyzed", "done"}
    /\ spc = "detected" => language \in {"python", "kotlin", "java", "javascript", "unknown"}
    /\ spc = "analyzed" =>
          scan.parser_used \in {"Regex-based structural analysis", "No parser available"}
    /\ spc = "done" =>
          /\ analysis.limitations # <<>> <=> analysis.language = "unknown"
          /\ analysis.language = "unknown" =>
                /\ analysis.findings = <<>>
                /\ analysis.parser_used = "No parser available"
          /\ code_lines = <<"">> => analysis.language = "unknown"

\* C10's cases: the empty string, analysed as 'unknown' with a limitation
C10_Witness ==
    /\ spc = "done"
    /\ code_lines = <<"">>
    /\ analysis.language = "unknown"
    /\ Len(analysis.limitations) = 1
    /\ analysis.lines_scanned = 1

---------------------------------------------------------------------------
(* analyze_code called again and again by scan_code, each call on a        *)
(* snippet of some language                                                *)

MaxScans == 3

\* one snippet per language, each with a finding, and one of no language
RescanSnippets ==
    {<<"public class A {", CatchLine, "}", "}">>,
     <<"suspend fun load() {", "    Thread.sleep(5)", "}">>,
     <<AsyncDefLine, "    time.sleep(1)">>,
     <<"const x = 1;", "fs.readFileSync(p);">>,
     <<"hello world">>}

InitRescan ==
    /\ LogIdle /\ FpIdle
    /\ code_lines \in RescanSnippets
    /\ language = None
    /\ i_line = 0
    /\ findings = <<>>
    /\ scan = [none |-> TRUE]
    /\ analysis = None
    /\ spc = "start"
    /\ runs = <<>>
    /\ llm = [pc |-> "idle"]
    /\ ToolsIdle

\* analyze_code returns, its locals are gone, and scan_code calls it again
NextScanCall ==
    /\ spc = "done"
    /\ Len(runs) + 1 < MaxScans
    /\ runs' = Append(runs, [code_lines |-> code_lines, analysis |-> analysis])
    /\ code_lines' \in RescanSnippets
    /\ language' = None
    /\ i_line' = 0
    /\ findings' = <<>>
    /\ scan' = [none |-> TRUE]
    /\ analysis' = None
    /\ spc' = "start"
    /\ UNCHANGED <<logvars, fpvars, llm, toolvars>>

NextRescan ==
    \/ DetectLanguage
    \/ RunJavascript \/ RunJava \/ RunKotlin \/ RunPython \/ NoParser
    \/ BuildResult
    \/ NextScanCall
SpecRescan == InitRescan /\ [][NextRescan]_vars

\* the calls that have returned, the one that has just returned included
AllRuns ==
    IF spc = "done"
    THEN Append(runs, [code_lines |-> code_lines, analysis |-> analysis])
    ELSE runs

\* the two findings lists agree in length, order and every field
SameFindings(fs, gs) ==
    /\ Len(fs) = Len(gs)
    /\ \A k \in DOMAIN fs :
          /\ fs[k].rule_id = gs[k].rule_id
          /\ fs[k].severity = gs[k].severity
          /\ fs[k].category = gs[k].category
          /\ fs[k].message = gs[k].message
          /\ fs[k].line = gs[k].line
          /\ fs[k].why_it_matters = gs[k].why_it_matters
          /\ fs[k].suggested_fix = gs[k].suggested_fix

---------------------------------------------------------------------------
(* The claims about detect_language                                        *)

\* the categories in the order the claim fixes, and whether some cue of the
\* category matches the text
CategoryOrder == <<"python", "kotlin", "java", "javascript">>
CueMatches(category, code) ==
    CASE category = "python" -> LooksPython(code)
      [] category = "kotlin" -> LooksKotlin(code)
      [] category = "java" -> LooksJava(code)
      [] category = "javascript" -> LooksJavascript(code)
MatchingCategories(code) == {k \in DOMAIN CategoryOrder : CueMatches(CategoryOrder[k], code)}
FirstCategory(code) ==
    IF MatchingCategories(code) = {} THEN "unknown"
    ELSE CategoryOrder[SetMin(MatchingCategories(code))]

\* C12: detect_language returns the first category, in the order python,
\* kotlin, java, javascript, of which some cue matches the snippet, and
\* 'unknown' when no cue matches; a snippet matching cues of several
\* categories gets the earliest, and the result is one of the five values.
C12_FirstCategoryWins ==
    spc \in {"detected", "analyzed", "done"} =>
        /\ language \in {"python", "kotlin", "java", "javascript", "unknown"}
        /\ language = FirstCategory(Join("\n", code_lines))

\* C12's case: a snippet with a Kotlin cue on one line and a Java cue on the
\* other, whichever comes first in the text, is assigned kotlin
C12_Witness ==
    /\ spc = "detected"
    /\ code_lines = <<"public class A {", "fun main() {">>
    /\ Cardinality(MatchingCategories(Join("\n", code_lines))) = 2
    /\ language = "kotlin"

---------------------------------------------------------------------------
(* The claims about the order of findings                                  *)

\* no finding is followed in the list by a finding with a smaller line number
Ascending(fs) == \A k \in 1..(Len(fs) - 1) : fs[k].line <= fs[k + 1].line

\* C13: the findings list of a language pass is in ascending (non-decreasing)
\* order of line number at every point of the scan and when it is returned,
\* block findings (empty catch) that carry the opening line of the block
\* included.
C13_FindingsAscending == Ascending(findings)

---------------------------------------------------------------------------
(* json.loads: JSON values and the parser, for texts with integer numbers  *)
(* and strings without escape sequences                                    *)

\* a JSON value as Python holds it: str, int, True/False, None, list, dict;
\* a dict keeps its keys and values as two lists in the order of the text
JStr(s) == [t |-> "str", s |-> s, n |-> 0, items |-> <<>>, keys |-> <<>>]
JNum(n) == [t |-> "int", s |-> "", n |-> n, items |-> <<>>, keys |-> <<>>]
JTrue == [t |-> "True", s |-> "", n |-> 1, items |-> <<>>, keys |-> <<>>]
JFalse == [t |-> "False", s |-> "", n |-> 0, items |-> <<>>, keys |-> <<>>]
JNone == [t |-> "None", s |-> "", n |-> 0, items |-> <<>>, keys |-> <<>>]
JList(items) == [t |-> "list", s |-> "", n |-> 0, items |-> items, keys |-> <<>>]
JDict(keys, items) == [t |-> "dict", s |-> "", n |-> 0, items |-> items, keys |-> keys]

\* the result of a parsing step: a value and the position after it, or a failure
Parsed(v, pos) == [ok |-> TRUE, v |-> v, pos |-> pos]
ParseError == [ok |-> FALSE, v |-> JNone, pos |-> 0]

\* the first position at or after i that holds no JSON whitespace
RECURSIVE SkipWs(_, _)
SkipWs(s, i) ==
    IF i <= Len(s) /\ Char(s, i) \in Whitespace THEN SkipWs(s, i + 1) ELSE i

\* the end of the run of digits that starts at i (i itself if there is none)
RECURSIVE DigitsEnd(_, _)
DigitsEnd(s, i) ==
    IF i <= Len(s) /\ Char(s, i) \in Digits THEN DigitsEnd(s, i + 1) ELSE i
\* int(s) for a run of digits
RECURSIVE IntOf(_)
IntOf(s) ==
    IF Len(s) = 0 THEN 0
    ELSE 10 * IntOf(SubSeq(s, 1, Len(s) - 1)) + (Ord(Char(s, Len(s))) - 48)

\* a string: from the quote at i to the next quote, control characters refused
ParseString(s, i) ==
    IF FindFrom(s, "\"", i + 1) = 0 THEN ParseError
    ELSE IF \E k \in (i + 1)..(FindFrom(s, "\"", i + 1) - 1) : Char(s, k) \in {"\n", "\t", "\r"}
    THEN ParseError
    ELSE Parsed(JStr(SubSeq(s, i + 1, FindFrom(s, "\"", i + 1) - 1)), FindFrom(s, "\"", i + 1) + 1)

\* an integer: an optional minus sign, then digits without a leading zero
ParseDigits(s, i, e, sign) ==
    IF e = i \/ (e > i + 1 /\ Char(s, i) = "0") THEN ParseError
    ELSE Parsed(JNum(sign * IntOf(SubSeq(s, i, e - 1))), e)
ParseNumber(s, i) ==
    IF Char(s, i) = "-" THEN ParseDigits(s, i + 1, DigitsEnd(s, i + 1), -1)
    ELSE ParseDigits(s, i, DigitsEnd(s, i), 1)

ParseWord(s, i, word, v) ==
    IF SubSeq(s, i, Min(Len(s), i + Len(word) - 1)) = word
    THEN Parsed(v, i + Len(word)) ELSE ParseError

RECURSIVE ParseValue(_, _)
RECURSIVE ParseElements(_, _, _)
RECURSIVE ParseMembers(_, _, _, _)

\* after an element r of a list: a comma and the next element, or the bracket
AfterElement(s, r, j, acc) ==
    IF ~r.ok \/ j > Len(s) THEN ParseError
    ELSE IF Char(s, j) = "," THEN ParseElements(s, SkipWs(s, j + 1), Append(acc, r.v))
    ELSE IF Char(s, j) = "]" THEN Parsed(JList(Append(acc, r.v)), j + 1)
    ELSE ParseError
ParseElements(s, i, acc) ==
    CHOOSE x \in {AfterElement(s, r, IF r.ok THEN SkipWs(s, r.pos) ELSE 0, acc) :
                     r \in {ParseValue(s, i)}} : TRUE

\* after a member 'key: r' of a dict: a comma and the next member, or the brace
AfterMember(s, key, r, j, keys, vals) ==
    IF ~r.ok \/ j > Len(s) THEN ParseError
    ELSE IF Char(s, j) = ","
    THEN ParseMembers(s, SkipWs(s, j + 1), Append(keys, key.v.s), Append(vals, r.v))
    ELSE IF Char(s, j) = "}"
    THEN Parsed(JDict(Append(keys, key.v.s), Append(vals, r.v)), j + 1)
    ELSE ParseError
AfterKey(s, key, j, keys, vals) ==
    IF ~key.ok \/ j > Len(s) \/ Char(s, Min(j, Len(s))) # ":" THEN ParseError
    ELSE CHOOSE x \in {AfterMember(s, key, r, IF r.ok THEN SkipWs(s, r.pos) ELSE 0, keys, vals) :
                          r \in {ParseValue(s, SkipWs(s, j + 1))}} : TRUE
ParseMembers(s, i, keys, vals) ==
    IF i > Len(s) \/ Char(s, Min(i, Len(s))) # "\"" THEN ParseError
    ELSE CHOOSE x \in {AfterKey(s, key, IF key.ok THEN SkipWs(s, key.pos) ELSE 0, keys, vals) :
                          key \in {ParseString(s, i)}} : TRUE

\* the value that starts at the non-blank position i
ParseValue(s, i) ==
    IF i > Len(s) THEN ParseError
    ELSE IF Char(s, i) = "{"
    THEN (IF SkipWs(s, i + 1) <= Len(s) /\ Char(s, SkipWs(s, i + 1)) = "}"
          THEN Parsed(JDict(<<>>, <<>>), SkipWs(s, i + 1) + 1)
          ELSE ParseMembers(s, SkipWs(s, i + 1), <<>>, <<>>))
    ELSE IF Char(s, i) = "["
    THEN (IF SkipWs(s, i + 1) <= Len(s) /\ Char(s, SkipWs(s, i + 1)) = "]"
          THEN Parsed(JList(<<>>), SkipWs(s, i + 1) + 1)
          ELSE ParseElements(s, SkipWs(s, i + 1), <<>>))
    ELSE IF Char(s, i) = "\"" THEN ParseString(s, i)
    ELSE IF Char(s, i) \in Digits \cup {"-"} THEN ParseNumber(s, i)
    ELSE IF Char(s, i) = "t" THEN ParseWord(s, i, "true", JTrue)
    ELSE IF Char(s, i) = "f" THEN ParseWord(s, i, "false", JFalse)
    ELSE IF Char(s, i) = "n" THEN ParseWord(s, i, "null", JNone)
    ELSE ParseError

\* json.loads(s): the value, or a failure (json.JSONDecodeError) when s is not
\* one JSON value with nothing but whitespace around it
JsonEnd(s, r) == IF r.ok /\ SkipWs(s, r.pos) = Len(s) + 1 THEN r ELSE ParseError
json_loads(s) ==
    CHOOSE x \in {JsonEnd(s, r) : r \in {ParseValue(s, SkipWs(s, 1))}} : TRUE

\* bool(v) of a JSON value
Truthy(v) ==
    CASE v.t = "str" -> v.s # ""
      [] v.t = "int" -> v.n # 0
      [] v.t = "True" -> TRUE
      [] v.t \in {"False", "None"} -> FALSE
      [] v.t \in {"list", "dict"} -> v.items # <<>>

\* d.get(key, default) of a dict d: a later member of the same key wins
HasKey(d, key) == \E k \in DOMAIN d.keys : d.keys[k] = key
DictGet(d, key, default) ==
    IF HasKey(d, key)
    THEN d.items[SetMax({k \in DOMAIN d.keys : d.keys[k] = key})]
    ELSE default

---------------------------------------------------------------------------
(* api/llm_service.py: the heuristic analysis                              *)

\* "needle in text" for Python str: the empty needle is in every text
InText(needle, text) == needle = "" \/ Contains(text, needle)

\* a fresh str(uuid.uuid4()); no claim compares ids
Uuid4 == "00000000-0000-4000-8000-000000000000"

\* \[([A-Za-z]+(?:Service|Controller|Handler|Gateway|Client))\]
ServiceTagRe ==
    ReCat(<<ReLit("["), RePlus(ReIn(Lowers \cup Uppers)),
            ReAlt(<<ReLit("Service"), ReLit("Controller"), ReLit("Handler"),
                    ReLit("Gateway"), ReLit("Client")>>),
            ReLit("]")>>)
\* ([a-z-]+)\.(ts|js|py|java|go):\d+ with re.IGNORECASE
FileRefRe ==
    ReCat(<<RePlus(ReIn(Lowers \cup Uppers \cup {"-"})), ReLit("."),
            ReAlt(<<ReILit("ts"), ReILit("js"), ReILit("py"), ReILit("java"), ReILit("go")>>),
            ReLit(":"), RePlus(ReD)>>)

\* lines 75-77: the sources of the logs whose message holds message[:30]
SourcesOf(message, logs) ==
    {logs[k].source : k \in {j \in DOMAIN logs :
        /\ InText(SubSeq(message, 1, Min(30, Len(message))), logs[j].message)
        /\ logs[j].source # None /\ logs[j].source # ""}}
\* lines 79-81: group(1) of the service tag
ServiceOf(message) ==
    IF Search(ServiceTagRe, message)
    THEN {SubSeq(MatchedText(ServiceTagRe, message), 2, Len(MatchedText(ServiceTagRe, message)) - 1)}
    ELSE {}
\* lines 83-85: group(1) of the file reference
FileOf(message) ==
    IF Search(FileRefRe, message)
    THEN {SubSeq(MatchedText(FileRefRe, message), 1,
                 FindFrom(MatchedText(FileRefRe, message), ".", 1) - 1)}
    ELSE {}
\* the elements of a set of str in the order a list() of it has: one of its orders
RECURSIVE ListOfSet(_)
ListOfSet(S) ==
    IF S = {} THEN <<>>
    ELSE <<CHOOSE x \in S : \A y \in S : x = y \/ StrLess(x, y)>>
         \o ListOfSet(S \ {CHOOSE x \in S : \A y \in S : x = y \/ StrLess(x, y)})
\* s[:n] of a list
Take(s, n) == SubSeq(s, 1, Min(n, Len(s)))
\* lines 72-87
extract_components(message, logs) ==
    Take(ListOfSet(SourcesOf(message, logs) \cup ServiceOf(message) \cup FileOf(message)), 3)

\* lines 89-107
infer_root_cause_lower(lower) ==
    IF InText("timeout", lower)
    THEN "Service or database connection timing out, possibly due to high load or network issues"
    ELSE IF InText("connection", lower) /\ InText("refused", lower)
    THEN "External service or database is unavailable or refusing connections"
    ELSE IF InText("connection", lower) /\ InText("pool", lower)
    THEN "Connection pool exhausted - consider increasing pool size or reducing connection hold time"
    ELSE IF (InText("jwt", lower) \/ InText("token", lower)) /\ InText("expired", lower)
    THEN "Authentication tokens expiring - may need to implement token refresh mechanism"
    ELSE IF InText("memory", lower) \/ InText("heap", lower)
    THEN "Memory pressure or potential memory leak detected"
    ELSE IF InText("permission", lower) \/ InText("unauthorized", lower) \/ InText("forbidden", lower)
    THEN "Authorization or permission issue - review access control configuration"
    ELSE IF InText("null", lower) \/ InText("undefined", lower)
    THEN "Null or undefined value encountered - add proper null checks and validation"
    ELSE "Error pattern detected - requires manual investigation of stack traces and context"
infer_root_cause(message) == infer_root_cause_lower(Lower(message))

RootCause(id, description, confidence, affectedComponents) ==
    [id |-> id, description |-> description, confidence |-> confidence,
     affectedComponents |-> affectedComponents]
MissingContext(id, description, importance) ==
    [id |-> id, description |-> description, importance |-> importance]
Recommendation(id, title, description, priority, category) ==
    [id |-> id, title |-> title, description |-> description, priority |-> priority,
     category |-> category]
LlmAnalysis(summary, rootCauses, missingContext, recommendations) ==
    [summary |-> summary, rootCauses |-> rootCauses, missingContext |-> missingContext,
     recommendations |-> recommendations]

\* the number of logs whose level is in the set
CountLevel(logs, levels) == Cardinality({k \in DOMAIN logs : logs[k].level \in levels})
Plural(n) == IF n > 1 THEN "s" ELSE ""

\* lines 114-119
FallbackSummary(total_count, error_count, warn_count, group_count) ==
    Join(" ",
         <<"Analyzed " \o ToString(total_count) \o " log entries.">>
         \o (IF error_count > 0
             THEN <<"Found " \o ToString(error_count) \o " error" \o Plural(error_count)
                    \o " across " \o ToString(group_count) \o " distinct error pattern"
                    \o Plural(group_count) \o ".">>
             ELSE <<>>)
         \o (IF warn_count > 0
             THEN <<ToString(warn_count) \o " warning" \o Plural(warn_count) \o " detected.">>
             ELSE <<>>))
\* lines 121-131
FallbackRootCause(group, logs) ==
    RootCause(Uuid4, infer_root_cause(group.sampleMessage),
              IF group.count >= 3 THEN "high" ELSE IF group.count >= 2 THEN "medium" ELSE "low",
              extract_components(group.sampleMessage, logs))
\* lines 133-148
FallbackMissingContext(log_messages) ==
    (IF ~InText("request_id", log_messages) /\ ~InText("trace", log_messages)
     THEN <<MissingContext(Uuid4, "Request IDs or distributed tracing context not found in logs",
                           "recommended")>>
     ELSE <<>>)
    \o (IF ~InText("user", log_messages) /\ ~InText("account", log_messages)
        THEN <<MissingContext(Uuid4,
                              "User or account context not present - unable to correlate by user",
                              "optional")>>
        ELSE <<>>)
\* lines 152-160
TopGroupAdvice(error_groups) ==
    IF error_groups = <<>> THEN <<>>
    ELSE <<Recommendation(Uuid4, "Investigate " \o error_groups[1].label,
              "Focus on the most frequent error pattern: \""
              \o Take(error_groups[1].sampleMessage, 80)
              \o "...\". This occurred " \o ToString(error_groups[1].count)
              \o " time(s) and should be prioritized.",
              IF error_groups[1].severity \in {"critical", "high"} THEN "high" ELSE "medium",
              "investigation")>>
\* any(word in l.message.lower() for l in logs)
AnyMessageHas(lowered, word) == \E k \in DOMAIN lowered : InText(word, lowered[k])
\* lines 162-199
KeywordAdvice(lowered) ==
    (IF AnyMessageHas(lowered, "timeout")
     THEN <<Recommendation(Uuid4, "Review timeout configurations",
               "Timeout errors detected. Consider increasing timeout thresholds or implementing circuit breakers for external service calls.",
               "high", "mitigation")>>
     ELSE <<>>)
    \o (IF AnyMessageHas(lowered, "connection")
        THEN <<Recommendation(Uuid4, "Check connection pool settings",
                  "Connection-related errors found. Verify database/service connection pool sizing and health check configurations.",
                  "high", "investigation")>>
        ELSE <<>>)
    \o (IF AnyMessageHas(lowered, "memory") \/ AnyMessageHas(lowered, "heap")
        THEN <<Recommendation(Uuid4, "Monitor memory usage",
                  "Memory-related issues detected. Review heap dumps and consider scaling or optimizing memory-intensive operations.",
                  "medium", "investigation")>>
        ELSE <<>>)
    \o <<Recommendation(Uuid4, "Implement structured logging",
            "Ensure all logs include correlation IDs, timestamps, and component identifiers for easier debugging.",
            "low", "prevention")>>

\* lines 109-206
generate_fallback_analysis(logs, error_groups) ==
    LlmAnalysis(
        FallbackSummary(Len(logs), CountLevel(logs, {"ERROR", "FATAL"}),
                        CountLevel(logs, {"WARN"}), Len(error_groups)),
        [k \in 1..Min(3, Len(error_groups)) |-> FallbackRootCause(error_groups[k], logs)],
        FallbackMissingContext(Join(" ", [k \in DOMAIN logs |-> logs[k].message])),
        Take(TopGroupAdvice(error_groups)
             \o KeywordAdvice([k \in DOMAIN logs |-> Lower(logs[k].message)]), 5))

---------------------------------------------------------------------------
(* api/llm_service.py: analyze_with_llm                                    *)

\* re.search(r'\{[\s\S]*\}', s): the leftmost match starts at the first '{'
\* and, the star being greedy over every character, ends at the last '}'
\* after it; no match when there is no such pair
Positions(s, c) == {k \in 1..Len(s) : Char(s, k) = c}
HasJsonObject(s) ==
    /\ Positions(s, "{") # {}
    /\ \E k \in Positions(s, "}") : k > SetMin(Positions(s, "{"))
JsonObjectText(s) == SubSeq(s, SetMin(Positions(s, "{")), SetMax(Positions(s, "}")))

\* parse_json_response(text) for a value text of the reply: the parsed value,
\* or JNone when text is not a str (re.search raises TypeError), holds no
\* '{...}' or json.loads raises
parse_json_text(s) ==
    IF ~HasJsonObject(s) THEN JNone
    ELSE IF json_loads(JsonObjectText(s)).ok
    THEN json_loads(JsonObjectText(s)).v
    ELSE JNone
parse_json_response(text) == IF text.t # "str" THEN JNone ELSE parse_json_text(text.s)

\* what a step of the conversion gives: a value, or an exception
Converted(v) == [ok |-> TRUE, v |-> v]
Raises == [ok |-> FALSE, v |-> None]

\* the elements "for c in (v or [])" runs over: a falsy v gives none, a list
\* its items, a str its characters, a dict its keys; an int or True is not
\* iterable (TypeError)
CharsOf(s) == [k \in 1..Len(s) |-> JStr(Char(s, k))]
ElementsOf(v) ==
    IF ~Truthy(v) THEN Converted(<<>>)
    ELSE CASE v.t = "list" -> Converted(v.items)
           [] v.t = "str" -> Converted(CharsOf(v.s))
           [] v.t = "dict" -> Converted([k \in DOMAIN v.keys |-> JStr(v.keys[k])])
           [] OTHER -> Raises

\* what the schema (api/schemas.py, pydantic 2) accepts for a str field and
\* for a List[str] field
IsStr(v) == v.t = "str"
IsStrList(v) == v.t = "list" /\ \A k \in DOMAIN v.items : IsStr(v.items[k])

\* c.get("id") or str(uuid.uuid4())
IdOf(c) == IF Truthy(DictGet(c, "id", JNone)) THEN DictGet(c, "id", JNone) ELSE JStr(Uuid4)
\* c.get(key, default) if c.get(key) in allowed else default
EnumOf(c, key, allowed, default) ==
    IF DictGet(c, key, JNone).t = "str" /\ DictGet(c, key, JNone).s \in allowed
    THEN DictGet(c, key, JNone).s
    ELSE default

\* lines 258-263: c.get raises AttributeError unless c is a dict, and the
\* schema refuses a field of another type
ConvertRootCause(c) ==
    IF c.t # "dict" THEN Raises
    ELSE IF ~IsStr(IdOf(c)) \/ ~IsStr(DictGet(c, "description", JStr("Unknown cause")))
            \/ ~IsStrList(DictGet(c, "affectedComponents", JList(<<>>)))
    THEN Raises
    ELSE Converted(RootCause(
            IdOf(c).s,
            DictGet(c, "description", JStr("Unknown cause")).s,
            EnumOf(c, "confidence", {"low", "medium", "high"}, "medium"),
            [k \in DOMAIN DictGet(c, "affectedComponents", JList(<<>>)).items |->
                DictGet(c, "affectedComponents", JList(<<>>)).items[k].s]))
\* lines 268-272
ConvertMissingContext(m) ==
    IF m.t # "dict" THEN Raises
    ELSE IF ~IsStr(IdOf(m)) \/ ~IsStr(DictGet(m, "description", JStr("Unknown context")))
    THEN Raises
    ELSE Converted(MissingContext(
            IdOf(m).s,
            DictGet(m, "description", JStr("Unknown context")).s,
            EnumOf(m, "importance", {"optional", "recommended", "critical"}, "optional")))
\* lines 277-283
ConvertRecommendation(r) ==
    IF r.t # "dict" THEN Raises
    ELSE IF ~IsStr(IdOf(r)) \/ ~IsStr(DictGet(r, "title", JStr("Recommendation")))
            \/ ~IsStr(DictGet(r, "description", JStr("No description provided")))
    THEN Raises
    ELSE Converted(Recommendation(
            IdOf(r).s,
            DictGet(r, "title", JStr("Recommendation")).s,
            DictGet(r, "description", JStr("No description provided")).s,
            EnumOf(r, "priority", {"low", "medium", "high"}, "medium"),
            EnumOf(r, "category", {"investigation", "mitigation", "prevention"},
                   "investigation")))

\* a list comprehension over the converted elements
AllConverted(rs) ==
    IF \A k \in DOMAIN rs : rs[k].ok THEN Converted([k \in DOMAIN rs |-> rs[k].v]) ELSE Raises
ConvertRootCauses(es) ==
    IF ~es.ok THEN Raises ELSE AllConverted([k \in DOMAIN es.v |-> ConvertRootCause(es.v[k])])
ConvertMissingContexts(es) ==
    IF ~es.ok THEN Raises ELSE AllConverted([k \in DOMAIN es.v |-> ConvertMissingContext(es.v[k])])
ConvertRecommendations(es) ==
    IF ~es.ok THEN Raises ELSE AllConverted([k \in DOMAIN es.v |-> ConvertRecommendation(es.v[k])])

\* lines 287-292
BuildAnalysis(summary, root_causes, missing_context, recommendations) ==
    IF ~root_causes.ok \/ ~missing_context.ok \/ ~recommendations.ok \/ ~IsStr(summary)
    THEN Raises
    ELSE Converted(LlmAnalysis(summary.s, root_causes.v, missing_context.v, recommendations.v))
\* lines 257-292 for a non-empty dict parsed
ConvertReply(parsed) ==
    BuildAnalysis(DictGet(parsed, "summary", JStr("Analysis completed.")),
                  ConvertRootCauses(ElementsOf(DictGet(parsed, "rootCauses", JNone))),
                  ConvertMissingContexts(ElementsOf(DictGet(parsed, "missingContext", JNone))),
                  ConvertRecommendations(ElementsOf(DictGet(parsed, "recommendations", JNone))))

\* line 245: data[0].get("generated_text") if isinstance(data, list) else
\* data.get("generated_text"); IndexError on an empty list, AttributeError on
\* anything that is not a dict
GeneratedTextOf(data) ==
    IF data.t = "list"
    THEN (IF data.items = <<>> \/ data.items[1].t # "dict" THEN Raises
          ELSE Converted(DictGet(data.items[1], "generated_text", JNone)))
    ELSE IF data.t # "dict" THEN Raises
    ELSE Converted(DictGet(data, "generated_text", JNone))


---------------------------------------------------------------------------
(* analyze_with_llm called by analyze_logs on what parse_logs and          *)
(* group_errors returned, for every kind of reply of the hosted model      *)

\* the raw logs of the request, as lines
LlmLogInputs ==
    {<<"hello world">>,
     <<PaymentLine("2024-01-01T10:00:00Z", "4521"), PaymentLine("2024-01-01T10:00:05Z", "9983"),
       "WARN low disk">>,
     <<"">>}

\* os.environ.get("HUGGINGFACE_API_KEY"): unset, empty, or a token
ApiKeys == {None, "", "hf_token"}
\* what client.post raises when the transport fails
TransportErrors == {"ConnectError", "ReadTimeout"}
StatusCodes == {200, 429, 500, 503}

\* generated texts: a complete reply, a reply inside prose, prose without
\* JSON, cut-off or malformed JSON, the empty object, objects without any
\* expected field, and objects whose fields have other types than the prompt
\* asks for
LlmTexts ==
    {"{\"summary\": \"Database down\", \"rootCauses\": [{\"id\": \"r1\", \"description\": \"db down\", \"confidence\": \"high\", \"affectedComponents\": [\"db\"]}], \"missingContext\": [{\"description\": \"metrics\", \"importance\": \"critical\"}], \"recommendations\": [{\"title\": \"Restart\", \"description\": \"restart db\", \"priority\": \"urgent\", \"category\": \"mitigation\"}]}",
     "Here is the analysis: {\"summary\": \"ok\"} Hope it helps",
     "I cannot analyze these logs.",
     "{\"summary\": \"ok\"",
     "{\"summary\": \"ok\", }",
     "{\"summary\": \"ok\"} and {more}",
     "{}",
     "{\"foo\": 1}",
     "{\"summary\": \"ok\", \"rootCauses\": null}",
     "{\"summary\": \"ok\", \"rootCauses\": 0}",
     "{\"summary\": \"ok\", \"rootCauses\": 7}",
     "{\"rootCauses\": \"none\"}",
     "{\"rootCauses\": [\"db\"]}",
     "{\"rootCauses\": [null]}",
     "{\"rootCauses\": {\"a\": 1}}",
     "{\"rootCauses\": [{\"description\": 5}]}",
     "{\"rootCauses\": [{\"confidence\": 5}]}",
     "{\"rootCauses\": [{\"affectedComponents\": \"db\"}]}",
     "{\"summary\": [\"a\"]}",
     "{\"missingContext\": [{\"importance\": \"vital\"}], \"recommendations\": false}",
     "{\"recommendations\": [{\"id\": 7}]}"}

\* what response.json() gives for a reply of status 200: the two shapes that
\* carry a generated text, and shapes that carry none
GeneratedValues == {JStr(t) : t \in LlmTexts} \cup {JStr(""), JNone, JNum(5)}
ReplyData ==
    {JList(<<JDict(<<"generated_text">>, <<g>>)>>) : g \in GeneratedValues}
    \cup {JDict(<<"generated_text">>, <<g>>) : g \in GeneratedValues}
    \cup {JList(<<>>), JList(<<JStr("x")>>), JStr("Service Unavailable"),
          JDict(<<"error">>, <<JStr("Model is loading")>>), JNone}

\* parse_json_response on every text of the model, computed once
ParsedReplies == [t \in LlmTexts \cup {""} |-> parse_json_text(t)]
ParsedReply(text) == IF text.t # "str" THEN JNone ELSE ParsedReplies[text.s]

LlmCall(at, api_key, status_code, data, generated_text, parsed, raised, returned) ==
    [pc |-> at, api_key |-> api_key, status_code |-> status_code, data |-> data,
     generated_text |-> generated_text, parsed |-> parsed, raised |-> raised,
     returned |-> returned]
\* the value of "return analysis, used_fallback"
LlmReturn(a, used_fallback) == [analysis |-> a, used_fallback |-> used_fallback]

InitLlm ==
    /\ lines \in LlmLogInputs
    /\ idx = Len(lines)
    /\ entries = parse_logs_lines(lines)
    /\ current_entry = NoEntry /\ current_stack_trace = <<>>
    /\ result = group_errors(entries)
    /\ pc = "done"
    /\ FpIdle /\ ScanIdle
    /\ runs = <<>>
    /\ llm = LlmCall("start", None, 0, JNone, JNone, JNone, None, None)
    /\ ToolsIdle

LlmFrame == UNCHANGED <<logvars, fpvars, scanvars, runs, toolvars>>
\* return generate_fallback_analysis(logs, error_groups), True
ReturnFallback(call) ==
    /\ llm' = [call EXCEPT !.pc = "returned",
                           !.returned = LlmReturn(generate_fallback_analysis(entries, result), TRUE)]
    /\ LlmFrame

\* lines 209-213
NoApiKey ==
    /\ llm.pc = "start"
    /\ \E key \in ApiKeys :
          /\ key \in {None, ""}
          /\ ReturnFallback([llm EXCEPT !.api_key = key])
\* lines 209-216
HasApiKey ==
    /\ llm.pc = "start"
    /\ \E key \in ApiKeys :
          /\ key \notin {None, ""}
          /\ llm' = [llm EXCEPT !.api_key = key, !.pc = "post"]
    /\ LlmFrame
\* lines 218-236: the request fails in the transport
PostRaises ==
    /\ llm.pc = "post"
    /\ \E e \in TransportErrors : llm' = [llm EXCEPT !.raised = e, !.pc = "except"]
    /\ LlmFrame
\* lines 218-236: the request is answered
PostResponds ==
    /\ llm.pc = "post"
    /\ \E status \in StatusCodes :
          llm' = [llm EXCEPT !.status_code = status, !.pc = "status"]
    /\ LlmFrame
\* lines 238-242
BadStatus ==
    /\ llm.pc = "status"
    /\ llm.status_code # 200
    /\ ReturnFallback(llm)
\* line 244: response.json() raises on a body that is not JSON
BodyRaises ==
    /\ llm.pc = "status"
    /\ llm.status_code = 200
    /\ llm' = [llm EXCEPT !.raised = "JSONDecodeError", !.pc = "except"]
    /\ LlmFrame
\* lines 244-245
ReadGeneratedText ==
    /\ llm.pc = "status"
    /\ llm.status_code = 200
    /\ \E data \in ReplyData :
          llm' = IF GeneratedTextOf(data).ok
                 THEN [llm EXCEPT !.data = data, !.generated_text = GeneratedTextOf(data).v,
                                  !.pc = "text"]
                 ELSE [llm EXCEPT !.data = data, !.raised = "AttributeError or IndexError",
                                  !.pc = "except"]
    /\ LlmFrame
\* lines 247-249
EmptyText ==
    /\ llm.pc = "text"
    /\ ~Truthy(llm.generated_text)
    /\ ReturnFallback(llm)
\* line 251
ParseReply ==
    /\ llm.pc = "text"
    /\ Truthy(llm.generated_text)
    /\ llm' = [llm EXCEPT !.parsed = ParsedReply(llm.generated_text), !.pc = "parsed"]
    /\ LlmFrame
\* lines 253-255
NotParsed ==
    /\ llm.pc = "parsed"
    /\ ~Truthy(llm.parsed)
    /\ ReturnFallback(llm)
\* lines 257-292: the conversion succeeds
ConvertReturns ==
    /\ llm.pc = "parsed"
    /\ Truthy(llm.parsed)
    /\ ConvertReply(llm.parsed).ok
    /\ llm' = [llm EXCEPT !.pc = "returned",
                          !.returned = LlmReturn(ConvertReply(llm.parsed).v, FALSE)]
    /\ LlmFrame
\* lines 257-292: the conversion raises
ConvertRaises ==
    /\ llm.pc = "parsed"
    /\ Truthy(llm.parsed)
    /\ ~ConvertReply(llm.parsed).ok
    /\ llm' = [llm EXCEPT !.raised = "AttributeError, TypeError or ValidationError",
                          !.pc = "except"]
    /\ LlmFrame
\* lines 294-296
ExceptFallback ==
    /\ llm.pc = "except"
    /\ ReturnFallback(llm)

NextLlm ==
    \/ NoApiKey \/ HasApiKey
    \/ PostRaises \/ PostResponds
    \/ BadStatus \/ BodyRaises \/ ReadGeneratedText
    \/ EmptyText \/ ParseReply
    \/ NotParsed \/ ConvertReturns \/ ConvertRaises
    \/ ExceptFallback
SpecLlm == InitLlm /\ [][NextLlm]_vars

---------------------------------------------------------------------------
(* The claims about analyze_with_llm                                       *)

\* the shape the prompt asks for: summary a str; rootCauses, missingContext
\* and recommendations lists of objects whose fields are strs, and
\* affectedComponents a list of strs. A field that is absent or null has no
\* type to be wrong.
Present(d, key) == HasKey(d, key) /\ DictGet(d, key, JNone).t # "None"
ReplyListFields == {"rootCauses", "missingContext", "recommendations"}
ReplyStrFields ==
    {"id", "description", "confidence", "importance", "title", "priority", "category"}
ItemUnexpected(c) ==
    \/ c.t # "dict"
    \/ c.t = "dict" /\ \E f \in ReplyStrFields : Present(c, f) /\ DictGet(c, f, JNone).t # "str"
    \/ c.t = "dict" /\ Present(c, "affectedComponents")
                    /\ ~IsStrList(DictGet(c, "affectedComponents", JNone))
HasUnexpectedType(parsed) ==
    \/ Present(parsed, "summary") /\ DictGet(parsed, "summary", JNone).t # "str"
    \/ \E f \in ReplyListFields :
          /\ Present(parsed, f)
          /\ \/ DictGet(parsed, f, JNone).t # "list"
             \/ /\ DictGet(parsed, f, JNone).t = "list"
                /\ \E k \in DOMAIN DictGet(parsed, f, JNone).items :
                      ItemUnexpected(DictGet(parsed, f, JNone).items[k])

\* the outcomes of the collaborator that the claim lists
CollaboratorFailed ==
    \/ llm.api_key \in {None, ""}
    \/ llm.raised # None
    \/ llm.status_code # 200
    \/ ~Truthy(llm.generated_text)
    \/ ~Truthy(llm.parsed)
    \/ HasUnexpectedType(llm.parsed)

\* C14: analyze_with_llm never raises and always returns an analysis: without
\* an API key, on a transport error or timeout, a status other than 200, an
\* empty generated text, a text without parseable JSON, or JSON whose fields
\* have unexpected types, it returns the heuristic fallback analysis with
\* usedFallback = true; it returns usedFallback = false only when the reply
\* was parsed and converted.
C14_LlmFailureFallsBack ==
    llm.pc = "returned" =>
        /\ DOMAIN llm.returned.analysis = {"summary", "rootCauses", "missingContext", "recommendations"}
        /\ CollaboratorFailed =>
              llm.returned = LlmReturn(generate_fallback_analysis(entries, result), TRUE)
        /\ ~llm.returned.used_fallback =>
              /\ Truthy(llm.parsed) /\ ConvertReply(llm.parsed).ok
              /\ llm.returned.analysis = ConvertReply(llm.parsed).v

---------------------------------------------------------------------------
(* api/tool_services.py: the tool operations that consult the language     *)
(* model through call_llm                                                  *)

\* the members of xs whose condition holds, in order: the effect of a run of
\* "if cond: list.append(x)" statements
Appended(xs) == SelectSeq(xs, LAMBDA x : x.cond)
When(cond, x) == [cond |-> cond, x |-> x]
Values(xs) == [k \in DOMAIN xs |-> xs[k].x]

\* [s for s in v] of a list of str
StrsOf(v) == [k \in DOMAIN v.items |-> v.items[k].s]

ApiReviewResult(missingFields, inconsistencies, breakingChangeRisks, bestPractices, summary) ==
    [missingFields |-> missingFields, inconsistencies |-> inconsistencies,
     breakingChangeRisks |-> breakingChangeRisks, bestPractices |-> bestPractices,
     summary |-> summary]

\* generate_api_review_fallback
ApiMissingFields(lower) ==
    Values(Appended(<<
        When(~InText("content-type", lower), "Content-Type header not specified"),
        When(~InText("error", lower) /\ InText("response", lower),
             "Error response format not defined"),
        When(~InText("pagination", lower) /\ (InText("list", lower) \/ InText("array", lower)),
             "Pagination not defined for list endpoints")>>))
ApiInconsistencies(lower) ==
    Values(Appended(<<
        When(InText("200", lower) /\ InText("post", lower) /\ ~InText("201", lower),
             "POST requests typically return 201 Created, not 200 OK"),
        When(InText("id", lower) /\ InText("_id", lower),
             "Inconsistent ID field naming (id vs _id)")>>))
ApiBreakingChangeRisks(lower) ==
    Values(Appended(<<
        When(InText("required", lower) \/ InText("mandatory", lower),
             "Adding required fields to requests could break existing clients"),
        When(InText("remove", lower) \/ InText("deprecate", lower),
             "Removing fields from responses could break clients")>>))
ApiBestPractices ==
    <<"Consider using semantic versioning in API paths (e.g., /v1/users)",
      "Include rate limiting headers in responses (X-RateLimit-*)",
      "Use consistent date formats (ISO 8601) across all endpoints">>
ApiFallbackOf(missing_fields, inconsistencies, breaking_change_risks) ==
    ApiReviewResult(missing_fields, inconsistencies, breaking_change_risks, ApiBestPractices,
        "Analyzed API contract. Found " \o ToString(Len(missing_fields))
        \o " missing fields, " \o ToString(Len(inconsistencies))
        \o " inconsistencies, and " \o ToString(Len(breaking_change_risks))
        \o " potential breaking change risks.")
generate_api_review_fallback(api_contract) ==
    CHOOSE r \in {ApiFallbackOf(ApiMissingFields(lower), ApiInconsistencies(lower),
                                ApiBreakingChangeRisks(lower)) :
                  lower \in {Lower(api_contract)}} : TRUE

\* lines 43-49: the schema wants four List[str] and a str
ConvertApiReview(parsed) ==
    IF /\ \A f \in {"missingFields", "inconsistencies", "breakingChangeRisks", "bestPractices"} :
             IsStrList(DictGet(parsed, f, JList(<<>>)))
       /\ IsStr(DictGet(parsed, "summary", JStr("Analysis completed.")))
    THEN Converted(ApiReviewResult(
            StrsOf(DictGet(parsed, "missingFields", JList(<<>>))),
            StrsOf(DictGet(parsed, "inconsistencies", JList(<<>>))),
            StrsOf(DictGet(parsed, "breakingChangeRisks", JList(<<>>))),
            StrsOf(DictGet(parsed, "bestPractices", JList(<<>>))),
            DictGet(parsed, "summary", JStr("Analysis completed.")).s))
    ELSE Raises

\* lines 40-52, for the value parse_json_response gave (None when call_llm
\* returned nothing)
review_api_contract(api_contract, parsed) ==
    IF Truthy(parsed) THEN ConvertApiReview(parsed)
    ELSE Converted(generate_api_review_fallback(api_contract))


RetryStrategy(recommendation, maxRetries, backoffType, initialDelay) ==
    [recommendation |-> recommendation, maxRetries |-> maxRetries,
     backoffType |-> backoffType, initialDelay |-> initialDelay]
IdempotencyConfig(recommendation, keyStrategy, storageApproach) ==
    [recommendation |-> recommendation, keyStrategy |-> keyStrategy,
     storageApproach |-> storageApproach]
CircuitBreakerConfig(recommendation, threshold, timeout, halfOpenRequests) ==
    [recommendation |-> recommendation, threshold |-> threshold, timeout |-> timeout,
     halfOpenRequests |-> halfOpenRequests]
ResilienceResult(retryStrategy, idempotency, circuitBreaker, doNotRetry, summary) ==
    [retryStrategy |-> retryStrategy, idempotency |-> idempotency,
     circuitBreaker |-> circuitBreaker, doNotRetry |-> doNotRetry, summary |-> summary]

\* generate_resilience_fallback
ResilienceDoNotRetry(lower) ==
    Values(Appended(<<
        When(InText("payment", lower) \/ InText("charge", lower) \/ InText("transaction", lower),
             "Payment confirmations - may result in double charges"),
        When(InText("payment", lower) \/ InText("charge", lower) \/ InText("transaction", lower),
             "Successful transactions - already completed"),
        When(InText("email", lower) \/ InText("notification", lower),
             "Successfully sent notifications - duplicate messages"),
        When(TRUE, "4xx client errors - request is invalid"),
        When(TRUE, "Authentication failures - credentials won't change"),
        When(TRUE, "Resource not found (404) - resource still won't exist")>>))
ResilienceFallbackOf(do_not_retry, has_payment, has_timeout) ==
    ResilienceResult(
        RetryStrategy(
            IF has_payment
            THEN "Use very conservative retry strategy with idempotency keys to prevent duplicate payments"
            ELSE "Implement exponential backoff with jitter to prevent thundering herd",
            IF has_payment THEN 2 ELSE 3,
            "exponential",
            IF has_timeout THEN "500ms" ELSE "100ms"),
        IdempotencyConfig(
            IF has_payment
            THEN "Critical: Generate unique idempotency key per payment attempt, store in database with payment status"
            ELSE "Include idempotency key header for all mutation operations",
            IF has_payment THEN "composite" ELSE "request-id",
            IF has_payment THEN "database" ELSE "redis"),
        CircuitBreakerConfig(
            "Open circuit after consecutive failures to prevent cascade failures and allow recovery",
            "5 failures in 30s",
            IF has_timeout THEN "60s" ELSE "30s",
            3),
        do_not_retry,
        "Analyzed scenario for resilience patterns. "
        \o (IF has_payment THEN "Payment scenarios require extra care with idempotency." ELSE "")
        \o " Recommended exponential backoff with circuit breaker protection.")
generate_resilience_fallback(scenario) ==
    CHOOSE r \in {ResilienceFallbackOf(
                      ResilienceDoNotRetry(lower),
                      InText("payment", lower) \/ InText("stripe", lower) \/ InText("charge", lower),
                      InText("timeout", lower)) :
                  lower \in {Lower(scenario)}} : TRUE

\* what the schema (pydantic 2) makes of a value given for an int field: an
\* int or a bool as it is, a str of digits converted, anything else refused
IsIntLike(v) ==
    \/ v.t \in {"int", "True", "False"}
    \/ v.t = "str" /\ v.s # "" /\ DigitsEnd(v.s, 1) = Len(v.s) + 1
IntFieldOf(v) == IF v.t = "str" THEN IntOf(v.s) ELSE v.n

\* parsed.get(section, {}): the next .get raises AttributeError unless this
\* is a dict
SectionOf(parsed, section) == DictGet(parsed, section, JDict(<<>>, <<>>))

\* lines 125-146
ConvertResilience(parsed, retry, idem, breaker) ==
    IF retry.t # "dict" \/ idem.t # "dict" \/ breaker.t # "dict" THEN Raises
    ELSE IF
       \/ ~IsStr(DictGet(retry, "recommendation", JStr("")))
       \/ ~IsIntLike(DictGet(retry, "maxRetries", JNum(3)))
       \/ ~IsStr(DictGet(retry, "backoffType", JStr("")))
       \/ ~IsStr(DictGet(retry, "initialDelay", JStr("")))
       \/ ~IsStr(DictGet(idem, "recommendation", JStr("")))
       \/ ~IsStr(DictGet(idem, "keyStrategy", JStr("")))
       \/ ~IsStr(DictGet(idem, "storageApproach", JStr("")))
       \/ ~IsStr(DictGet(breaker, "recommendation", JStr("")))
       \/ ~IsStr(DictGet(breaker, "threshold", JStr("")))
       \/ ~IsStr(DictGet(breaker, "timeout", JStr("")))
       \/ ~IsIntLike(DictGet(breaker, "halfOpenRequests", JNum(3)))
       \/ ~IsStrList(DictGet(parsed, "doNotRetry", JList(<<>>)))
       \/ ~IsStr(DictGet(parsed, "summary", JStr("")))
    THEN Raises
    ELSE Converted(ResilienceResult(
        RetryStrategy(
            DictGet(retry, "recommendation", JStr("Implement exponential backoff with jitter")).s,
            IntFieldOf(DictGet(retry, "maxRetries", JNum(3))),
            DictGet(retry, "backoffType", JStr("exponential")).s,
            DictGet(retry, "initialDelay", JStr("100ms")).s),
        IdempotencyConfig(
            DictGet(idem, "recommendation", JStr("Use idempotency keys for mutation operations")).s,
            DictGet(idem, "keyStrategy", JStr("request-id")).s,
            DictGet(idem, "storageApproach", JStr("redis")).s),
        CircuitBreakerConfig(
            DictGet(breaker, "recommendation", JStr("Implement circuit breaker for external calls")).s,
            DictGet(breaker, "threshold", JStr("50% failures")).s,
            DictGet(breaker, "timeout", JStr("30s")).s,
            IntFieldOf(DictGet(breaker, "halfOpenRequests", JNum(3)))),
        StrsOf(DictGet(parsed, "doNotRetry", JList(<<>>))),
        DictGet(parsed, "summary", JStr("Analysis completed.")).s))

\* lines 122-148
get_resilience_advice(scenario, parsed) ==
    IF Truthy(parsed)
    THEN ConvertResilience(parsed, SectionOf(parsed, "retryStrategy"),
                           SectionOf(parsed, "idempotency"), SectionOf(parsed, "circuitBreaker"))
    ELSE Converted(generate_resilience_fallback(scenario))


Bottleneck(component, description, severity) ==
    [component |-> component, description |-> description, severity |-> severity]
SinglePointOfFailure(component, risk, mitigation) ==
    [component |-> component, risk |-> risk, mitigation |-> mitigation]
ScalabilityConcern(area, description, recommendation) ==
    [area |-> area, description |-> description, recommendation |-> recommendation]
ObservabilityGap(area, description) == [area |-> area, description |-> description]
SystemReviewResult(bottlenecks, singlePointsOfFailure, scalabilityConcerns, observabilityGaps, summary) ==
    [bottlenecks |-> bottlenecks, singlePointsOfFailure |-> singlePointsOfFailure,
     scalabilityConcerns |-> scalabilityConcerns, observabilityGaps |-> observabilityGaps,
     summary |-> summary]

\* generate_system_review_fallback
DesignBottlenecks(lower) ==
    Values(Appended(<<
        When(InText("single", lower) /\ (InText("database", lower) \/ InText("instance", lower)),
             Bottleneck("Database",
                        "Single database instance can become a bottleneck under load", "high")),
        When(InText("synchronous", lower),
             Bottleneck("Service Communication",
                        "Synchronous calls create tight coupling and can cause cascading delays",
                        "medium")),
        When(InText("api gateway", lower) /\ InText("single", lower),
             Bottleneck("API Gateway", "Single API gateway is a chokepoint for all traffic",
                        "high"))>>))
DesignSinglePoints(lower) ==
    Values(Appended(<<
        When(InText("single", lower) /\ InText("database", lower),
             SinglePointOfFailure("Database",
                                  "Database unavailability brings down entire system",
                                  "Implement primary-replica setup with automatic failover")),
        When(InText("cache", lower) /\ (InText("single", lower) \/ InText("one", lower)),
             SinglePointOfFailure("Cache",
                                  "Cache failure causes sudden load spike to backend",
                                  "Use distributed cache cluster (Redis Cluster, Memcached)"))>>))
DesignScalability(lower) ==
    Values(Appended(<<
        When(InText("monolith", lower),
             ScalabilityConcern("Architecture",
                                "Monolithic architecture limits independent scaling",
                                "Consider service decomposition for independent scaling")),
        When(InText("state", lower) \/ InText("session", lower),
             ScalabilityConcern("State Management",
                                "Stateful services are harder to scale horizontally",
                                "Externalize state to shared storage (Redis, database)"))>>))
DesignObservability(lower) ==
    Values(Appended(<<
        When(~InText("logging", lower) /\ ~InText("log", lower),
             ObservabilityGap("Logging", "No mention of logging strategy")),
        When(~InText("metric", lower) /\ ~InText("monitor", lower),
             ObservabilityGap("Metrics", "No metrics or monitoring infrastructure described")),
        When(~InText("trace", lower) /\ ~InText("tracing", lower),
             ObservabilityGap("Distributed Tracing",
                              "No distributed tracing for request correlation"))>>))
SystemFallbackOf(bottlenecks, single_points_of_failure, scalability_concerns, observability_gaps) ==
    SystemReviewResult(bottlenecks, single_points_of_failure, scalability_concerns,
        observability_gaps,
        "Analyzed system design. Found " \o ToString(Len(bottlenecks)) \o " bottlenecks, "
        \o ToString(Len(single_points_of_failure)) \o " single points of failure, and "
        \o ToString(Len(observability_gaps)) \o " observability gaps.")
generate_system_review_fallback(design) ==
    CHOOSE r \in {SystemFallbackOf(DesignBottlenecks(lower), DesignSinglePoints(lower),
                                   DesignScalability(lower), DesignObservability(lower)) :
                  lower \in {Lower(design)}} : TRUE

\* i.get(key, default) of an element i of a reply list, for a str field
StrFieldsOk(i, defaults) ==
    i.t = "dict" /\ \A k \in DOMAIN defaults : IsStr(DictGet(i, defaults[k][1], JStr(defaults[k][2])))
FieldOf(i, key, default) == DictGet(i, key, JStr(default)).s

\* lines 267-272, 275-280, 283-288, 291-295: i.get raises AttributeError
\* unless i is a dict, and the schema wants every field a str
ConvertBottleneck(i) ==
    IF ~StrFieldsOk(i, <<<<"component", "">>, <<"description", "">>, <<"severity", "">>>>)
    THEN Raises
    ELSE Converted(Bottleneck(FieldOf(i, "component", "Unknown"),
                              FieldOf(i, "description", "Bottleneck detected"),
                              FieldOf(i, "severity", "medium")))
ConvertSinglePoint(i) ==
    IF ~StrFieldsOk(i, <<<<"component", "">>, <<"risk", "">>, <<"mitigation", "">>>>)
    THEN Raises
    ELSE Converted(SinglePointOfFailure(FieldOf(i, "component", "Unknown"),
                                        FieldOf(i, "risk", "Single point of failure"),
                                        FieldOf(i, "mitigation", "Add redundancy")))
ConvertScalability(i) ==
    IF ~StrFieldsOk(i, <<<<"area", "">>, <<"description", "">>, <<"recommendation", "">>>>)
    THEN Raises
    ELSE Converted(ScalabilityConcern(FieldOf(i, "area", "Unknown"),
                                      FieldOf(i, "description", "Scalability concern"),
                                      FieldOf(i, "recommendation", "Consider horizontal scaling")))
ConvertObservability(i) ==
    IF ~StrFieldsOk(i, <<<<"area", "">>, <<"description", "">>>>)
    THEN Raises
    ELSE Converted(ObservabilityGap(FieldOf(i, "area", "Unknown"),
                                    FieldOf(i, "description", "Observability gap")))

\* lines 265-298
BuildSystemReview(bottlenecks, single_points, concerns, gaps, summary) ==
    IF ~bottlenecks.ok \/ ~single_points.ok \/ ~concerns.ok \/ ~gaps.ok \/ ~IsStr(summary)
    THEN Raises
    ELSE Converted(SystemReviewResult(bottlenecks.v, single_points.v, concerns.v, gaps.v,
                                      summary.s))
ConvertEach(es, Op(_)) ==
    IF ~es.ok THEN Raises ELSE AllConverted([k \in DOMAIN es.v |-> Op(es.v[k])])
ConvertSystemReview(parsed) ==
    BuildSystemReview(
        ConvertEach(ElementsOf(DictGet(parsed, "bottlenecks", JNone)), ConvertBottleneck),
        ConvertEach(ElementsOf(DictGet(parsed, "singlePointsOfFailure", JNone)), ConvertSinglePoint),
        ConvertEach(ElementsOf(DictGet(parsed, "scalabilityConcerns", JNone)), ConvertScalability),
        ConvertEach(ElementsOf(DictGet(parsed, "observabilityGaps", JNone)), ConvertObservability),
        DictGet(parsed, "summary", JStr("System design analysis completed.")))

\* lines 262-303
review_system_design(design, parsed) ==
    IF Truthy(parsed) THEN ConvertSystemReview(parsed)
    ELSE Converted(generate_system_review_fallback(design))


---------------------------------------------------------------------------
(* The tool operations under every answer of the language model            *)

ApiContracts ==
    {"POST /users returns 200 response",
     "GET /users: list of id and _id, limit required",
     "Content-Type: application/json; error format documented"}
Scenarios ==
    {"Payment times out: timeout at Stripe",
     "Email notification fails",
     "disk full"}
Designs ==
    {"Single database instance behind one cache",
     "Monolith with synchronous calls, session state, logging, metrics and tracing",
     "API gateway"}

\* what call_llm returns: None (no key, transport error, status other than
\* 200, no generated text) or the generated text; the texts are replies in
\* the shape a prompt asks for, replies without JSON, and JSON objects with
\* fields missing or of another type
ToolTexts ==
    {"",
     "I am sorry, I cannot help with that.",
     "{\"summary\": \"ok\"",
     "{}",
     "{\"summary\": \"ok\"}",
     "{\"summary\": 5}",
     "{\"missingFields\": [\"auth header\"], \"inconsistencies\": [], \"breakingChangeRisks\": [], \"bestPractices\": [\"use versioning\"], \"summary\": \"fine\"}",
     "{\"missingFields\": \"none\"}",
     "{\"missingFields\": null}",
     "{\"missingFields\": [1]}",
     "{\"retryStrategy\": {\"recommendation\": \"retry\", \"maxRetries\": 5}, \"idempotency\": {\"keyStrategy\": \"hash\"}, \"circuitBreaker\": {\"timeout\": \"10s\"}, \"doNotRetry\": [\"4xx\"], \"summary\": \"s\"}",
     "{\"retryStrategy\": \"exponential\"}",
     "{\"retryStrategy\": {\"maxRetries\": \"three\"}}",
     "{\"circuitBreaker\": null}",
     "{\"doNotRetry\": \"never\"}",
     "{\"bottlenecks\": [{\"component\": \"db\", \"description\": \"slow\", \"severity\": \"high\"}], \"singlePointsOfFailure\": [], \"observabilityGaps\": [{\"area\": \"logs\"}], \"summary\": \"s\"}",
     "{\"bottlenecks\": [\"db\"]}",
     "{\"bottlenecks\": \"db\"}",
     "{\"bottlenecks\": 3}",
     "{\"bottlenecks\": null}",
     "{\"scalabilityConcerns\": [{\"area\": 1}]}"}
LlmResponses == {JNone} \cup {JStr(t) : t \in ToolTexts}

\* parse_json_response on every text of the model, computed once
ToolParsed == [t \in ToolTexts |-> parse_json_text(t)]
\* lines 40-42, 122-124, 262-264: "if llm_response:" then parse_json_response
ParsedOf(llm_response) ==
    IF Truthy(llm_response) THEN ToolParsed[llm_response.s] ELSE JNone

ToolCall(op, input, llm_response, parsed, outcome) ==
    [op |-> op, input |-> input, llm_response |-> llm_response, parsed |-> parsed,
     outcome |-> outcome]
ToolFrame == UNCHANGED <<logvars, fpvars, scanvars, runs, llm, store, calls>>

InitTools ==
    /\ LogIdle /\ FpIdle /\ ScanIdle
    /\ runs = <<>> /\ llm = [pc |-> "idle"]
    /\ tool = [op |-> "idle"]
    /\ store = [op |-> "idle"] /\ calls = <<>>

ReviewApiContract ==
    /\ \E api_contract \in ApiContracts, llm_response \in LlmResponses :
          tool' = CHOOSE c \in {ToolCall("review_api_contract", api_contract, llm_response, parsed,
                                         review_api_contract(api_contract, parsed)) :
                                parsed \in {ParsedOf(llm_response)}} : TRUE
    /\ ToolFrame
GetResilienceAdvice ==
    /\ \E scenario \in Scenarios, llm_response \in LlmResponses :
          tool' = CHOOSE c \in {ToolCall("get_resilience_advice", scenario, llm_response, parsed,
                                         get_resilience_advice(scenario, parsed)) :
                                parsed \in {ParsedOf(llm_response)}} : TRUE
    /\ ToolFrame
ReviewSystemDesign ==
    /\ \E design \in Designs, llm_response \in LlmResponses :
          tool' = CHOOSE c \in {ToolCall("review_system_design", design, llm_response, parsed,
                                         review_system_design(design, parsed)) :
                                parsed \in {ParsedOf(llm_response)}} : TRUE
    /\ ToolFrame

NextTools == ReviewApiContract \/ GetResilienceAdvice \/ ReviewSystemDesign
SpecTools == InitTools /\ [][NextTools]_vars

\* the heuristic result of the operation of the last call
HeuristicResult ==
    CASE tool.op = "review_api_contract" -> generate_api_review_fallback(tool.input)
      [] tool.op = "get_resilience_advice" -> generate_resilience_fallback(tool.input)
      [] tool.op = "review_system_design" -> generate_system_review_fallback(tool.input)
\* the conversion of the reply by the operation of the last call
ConversionOf(parsed) ==
    CASE tool.op = "review_api_contract" -> ConvertApiReview(parsed)
      [] tool.op = "get_resilience_advice" ->
            ConvertResilience(parsed, SectionOf(parsed, "retryStrategy"),
                              SectionOf(parsed, "idempotency"), SectionOf(parsed, "circuitBreaker"))
      [] tool.op = "review_system_design" -> ConvertSystemReview(parsed)

\* C15: a tool operation that consults the language model returns a valid
\* result for every answer and never raises: when the model returns nothing,
\* returns text without JSON, or returns a JSON object with a field of an
\* unexpected type (one the operation cannot convert), the operation returns
\* its heuristic result.
C15_ToolsDegradeToHeuristic ==
    tool.op # "idle" =>
        /\ tool.outcome.ok
        /\ (~Truthy(tool.parsed) \/ ~ConversionOf(tool.parsed).ok)
           => tool.outcome.v = HeuristicResult


---------------------------------------------------------------------------
(* api/storage.py: MemStorage                                              *)

MaxSaves == 3

AnalyzeLogsResponse(id, createdAt, status, parsedLogs, errorGroups) ==
    [id |-> id, createdAt |-> createdAt, status |-> status, parsedLogs |-> parsedLogs,
     errorGroups |-> errorGroups]
AnalysisHistoryItem(id, createdAt, logCount, errorCount, status) ==
    [id |-> id, createdAt |-> createdAt, logCount |-> logCount, errorCount |-> errorCount,
     status |-> status]

\* the responses that analyze_logs of api/main.py saves: a completed analysis
\* of some logs, or a failed one without entries and groups
StoreIds == {"a1", "b2", "c3"}
CreatedAts == {"2024-01-01T10:00:00.000001Z", "2024-01-02T09:30:00.000001Z"}
StoredLogs == <<PaymentLine("2024-01-01T10:00:00Z", "4521"),
                PaymentLine("2024-01-01T10:00:05Z", "9983"), "WARN low disk">>
CompletedPayload ==
    [status |-> "completed", parsedLogs |-> parse_logs_lines(StoredLogs),
     errorGroups |-> group_errors(parse_logs_lines(StoredLogs))]
FailedPayload == [status |-> "failed", parsedLogs |-> <<>>, errorGroups |-> <<>>]
Responses ==
    {AnalyzeLogsResponse(id, createdAt, p.status, p.parsedLogs, p.errorGroups) :
        id \in StoreIds, createdAt \in CreatedAts, p \in {CompletedPayload, FailedPayload}}

\* self.analyses[analysis.id] = analysis, on a dict that keeps its keys in
\* the order of their first insertion
HasId(analyses, id) == \E k \in DOMAIN analyses : analyses[k].id = id
DictSet(analyses, a) ==
    IF HasId(analyses, a.id)
    THEN [k \in DOMAIN analyses |-> IF analyses[k].id = a.id THEN a ELSE analyses[k]]
    ELSE Append(analyses, a)

\* sum(g.count for g in a.errorGroups)
RECURSIVE SumCounts(_)
SumCounts(groups) ==
    IF groups = <<>> THEN 0 ELSE Head(groups).count + SumCounts(Tail(groups))

\* lines 18-24
HistoryItemOf(a) ==
    AnalysisHistoryItem(a.id, a.createdAt, Len(a.parsedLogs), SumCounts(a.errorGroups), a.status)

\* the items in the order of the dict, for comparison with the sorted list
KeepOrder(items) == items

\* items.sort(key=lambda x: x.createdAt, reverse=True): str order of the
\* key, larger first, items of equal key in their order before the sort
InsertByCreatedAt(sorted, item) ==
    CHOOSE r \in {SubSeq(sorted, 1, n) \o <<item>> \o SubSeq(sorted, n + 1, Len(sorted)) :
                  n \in {Cardinality({k \in DOMAIN sorted :
                                        ~StrLess(sorted[k].createdAt, item.createdAt)})}} : TRUE
RECURSIVE SortFrom(_, _, _)
SortFrom(items, k, sorted) ==
    IF k > Len(items) THEN sorted
    ELSE SortFrom(items, k + 1, InsertByCreatedAt(sorted, items[k]))
SortByCreatedAtReverse(items) == SortFrom(items, 1, <<>>)

\* lines 15-26
get_analysis_history(analyses) ==
    SortByCreatedAtReverse([k \in DOMAIN analyses |-> HistoryItemOf(analyses[k])])
\* line 13: self.analyses.get(id), None written as the empty list
get_analysis(analyses, id) ==
    IF HasId(analyses, id)
    THEN <<analyses[CHOOSE k \in DOMAIN analyses : analyses[k].id = id]>>
    ELSE <<>>

\* store.analyses is self.analyses; store.saved lists the arguments of the
\* save_analysis calls so far, store.op, store.arg and store.returned the
\* last call, its id argument and the value it returned
StoreState(op, analyses, saved, arg, returned) ==
    [op |-> op, analyses |-> analyses, saved |-> saved, arg |-> arg, returned |-> returned]
StoreFrame == UNCHANGED <<logvars, fpvars, scanvars, runs, llm, tool, calls>>

InitStorage ==
    /\ LogIdle /\ FpIdle /\ ScanIdle
    /\ runs = <<>> /\ llm = [pc |-> "idle"]
    /\ tool = [op |-> "idle"] /\ calls = <<>>
    /\ store = StoreState("init", <<>>, <<>>, "", <<>>)

SaveAnalysis ==
    /\ Len(store.saved) < MaxSaves
    /\ \E a \in Responses :
          store' = StoreState("save_analysis", DictSet(store.analyses, a),
                              Append(store.saved, a), a.id, <<a>>)
    /\ StoreFrame
GetAnalysis ==
    /\ \E id \in StoreIds :
          store' = StoreState("get_analysis", store.analyses, store.saved, id,
                              get_analysis(store.analyses, id))
    /\ StoreFrame
GetAnalysisHistory ==
    /\ store' = StoreState("get_analysis_history", store.analyses, store.saved, "",
                           get_analysis_history(store.analyses))
    /\ StoreFrame

NextStorage == SaveAnalysis \/ GetAnalysis \/ GetAnalysisHistory
SpecStorage == InitStorage /\ [][NextStorage]_vars

\* the save_analysis calls under an id, and the last of them
SavesOf(id) == SelectSeq(store.saved, LAMBDA a : a.id = id)
LastSaved(id) == SavesOf(id)[Len(SavesOf(id))]
SavedIds == {store.saved[k].id : k \in DOMAIN store.saved}

\* C16: get_analysis(id) returns the analysis most recently saved under id
\* and nothing for an id never saved; get_analysis_history returns exactly
\* one item per stored id, in non-increasing order of createdAt whatever the
\* order of the saves, each item with the createdAt and status of the
\* analysis last saved under its id, logCount the number of its parsed
\* entries and errorCount the sum of its groups' counts.
C16_StorageGetAndHistory ==
    /\ store.op = "get_analysis" =>
          store.returned = IF store.arg \in SavedIds THEN <<LastSaved(store.arg)>> ELSE <<>>
    /\ store.op = "get_analysis_history" =>
          /\ Len(store.returned) = Cardinality(SavedIds)
          /\ {store.returned[k].id : k \in DOMAIN store.returned} = SavedIds
          /\ \A j, k \in DOMAIN store.returned :
                j < k => ~StrLess(store.returned[j].createdAt, store.returned[k].createdAt)
          /\ \A k \in DOMAIN store.returned :
                store.returned[k] =
                    AnalysisHistoryItem(store.returned[k].id,
                                        LastSaved(store.returned[k].id).createdAt,
                                        Len(LastSaved(store.returned[k].id).parsedLogs),
                                        SumCounts(LastSaved(store.returned[k].id).errorGroups),
                                        LastSaved(store.returned[k].id).status)
\* a history of two ids saved oldest first, one of them saved twice
C16_Witness ==
    /\ store.op = "get_analysis_history"
    /\ Len(store.saved) = 3 /\ Len(store.returned) = 2
    /\ StrLess(store.saved[1].createdAt, store.saved[3].createdAt)
    /\ store.saved[1].id # store.saved[3].id
    /\ store.saved[2].id = store.saved[1].id /\ store.saved[2] # store.saved[1]
    /\ store.returned[1].errorCount > 0 /\ store.returned[1].logCount = 3


---------------------------------------------------------------------------
(* Two invocations of the analysis core, their steps interleaved           *)

\* an invocation: the function, its argument, the items its loop runs over,
\* and the language it was given
Invocation(fn, items, lang) == [fn |-> fn, items |-> items, lang |-> lang]
Invocations ==
    <<Invocation("parse_logs",
                 <<PaymentLine("2024-01-01T10:00:00Z", "4521"), "  detail", "retrying">>, None),
      Invocation("parse_logs", <<"WARN low disk", "\tat com.app.Pay.run(Pay.java:42)">>, None),
      Invocation("group_errors",
                 error_logs(parse_logs_lines(
                     <<PaymentLine("2024-01-01T10:00:00Z", "4521"),
                       PaymentLine("2024-01-01T10:00:05Z", "9983"), "WARN low disk">>)), None),
      Invocation("group_errors",
                 error_logs(parse_logs_lines(
                     <<PaymentLine("2024-01-01T10:00:05Z", "9983"), "[db]">>)), None),
      Invocation("analyze_python", <<AsyncDefLine, "    time.sleep(1)">>, "python"),
      Invocation("analyze_python", <<"time.sleep(1)", "import time">>, "python"),
      Invocation("analyze_java_kotlin", <<"public class A {", CatchLine, "}", "}">>, "java"),
      Invocation("analyze_java_kotlin",
                 <<"suspend fun load() {", "    Thread.sleep(5)", "}">>, "kotlin")>>

\* the locals a call creates when it starts: log_parser.py lines 63-66 and
\* 118-120, code_analyzer.py lines 84-93 and 204-211
StartLocals(fn) ==
    CASE fn = "parse_logs" -> ParseStart
      [] fn = "group_errors" -> <<>>
      [] fn = "analyze_python" -> PyStart
      [] fn = "analyze_java_kotlin" -> JkStart
\* a call in progress: the invocation, the number of items its loop has
\* consumed, its locals, and the value it returned; overlapped records that
\* the call took a step while the other call was in the middle of its loop
CallFrame(inv, k, st, done, returned, overlapped) ==
    [inv |-> inv, k |-> k, st |-> st, done |-> done, returned |-> returned,
     overlapped |-> overlapped]
CallStart(inv) == CallFrame(inv, 0, StartLocals(inv.fn), FALSE, <<>>, FALSE)
InProgress(c) == c.k >= 1 /\ ~c.done
Overlaps(cs, k) == cs[k].overlapped \/ \E j \in DOMAIN cs \ {k} : InProgress(cs[j])

\* the locals of the first call of the same function, as a variable of the
\* module would be shared by the calls
SharedLocals(cs, k) == IF cs[1].inv.fn = cs[k].inv.fn THEN cs[1].st ELSE cs[k].st
\* the locals a step of call k reads: those of its own frame
LocalsOf(cs, k) == cs[k].st

\* one pass of the loop of call k, on its next item
StepLocals(inv, st, n) ==
    CASE inv.fn = "parse_logs" -> LoopBodyParsed(st, inv.items[n], ParsedLogLines[inv.items[n]])
      [] inv.fn = "group_errors" -> AddToGroups(st, inv.items[n])
      [] inv.fn = "analyze_python" -> python_line(st, inv.items, n)
      [] inv.fn = "analyze_java_kotlin" -> java_kotlin_line(st, inv.items, n, inv.lang)
\* what the call returns once its loop has ended
ReturnOf(inv, st) ==
    CASE inv.fn = "parse_logs" -> finalize_entry(st).entries
      [] inv.fn = "group_errors" -> SortGroups([k \in DOMAIN st |-> MakeErrorGroup(k - 1, st[k])])
      [] inv.fn \in {"analyze_python", "analyze_java_kotlin"} -> st.findings
\* the result of the invocation when it runs alone
AloneResult(inv) ==
    CASE inv.fn = "parse_logs" -> parse_logs_lines(inv.items)
      [] inv.fn = "group_errors" ->
            SortGroups([k \in DOMAIN GroupLoop(<<>>, inv.items, 1) |->
                            MakeErrorGroup(k - 1, GroupLoop(<<>>, inv.items, 1)[k])])
      [] inv.fn = "analyze_python" -> analyze_python_lines(inv.items)
      [] inv.fn = "analyze_java_kotlin" -> analyze_java_kotlin_lines(inv.items, inv.lang)

CallsFrame == UNCHANGED <<logvars, fpvars, scanvars, runs, llm, tool, store>>

InitCalls ==
    /\ LogIdle /\ FpIdle /\ ScanIdle
    /\ runs = <<>> /\ llm = [pc |-> "idle"]
    /\ tool = [op |-> "idle"] /\ store = [op |-> "idle"]
    /\ \E a, b \in DOMAIN Invocations :
          calls = <<CallStart(Invocations[a]), CallStart(Invocations[b])>>

StepOf(k, fn) ==
    /\ calls[k].inv.fn = fn
    /\ ~calls[k].done
    /\ calls[k].k < Len(calls[k].inv.items)
    /\ calls' = [calls EXCEPT ![k] =
          CallFrame(calls[k].inv, calls[k].k + 1,
                    StepLocals(calls[k].inv, LocalsOf(calls, k), calls[k].k + 1), FALSE, <<>>,
                    Overlaps(calls, k))]
    /\ CallsFrame
ParseLogsStep == \E k \in 1..2 : StepOf(k, "parse_logs")
GroupErrorsStep == \E k \in 1..2 : StepOf(k, "group_errors")
AnalyzePythonStep == \E k \in 1..2 : StepOf(k, "analyze_python")
AnalyzeJavaKotlinStep == \E k \in 1..2 : StepOf(k, "analyze_java_kotlin")
CallReturns ==
    /\ \E k \in 1..2 :
          /\ ~calls[k].done
          /\ calls[k].k = Len(calls[k].inv.items)
          /\ calls' = [calls EXCEPT ![k] =
                CallFrame(calls[k].inv, calls[k].k, LocalsOf(calls, k), TRUE,
                          ReturnOf(calls[k].inv, LocalsOf(calls, k)), Overlaps(calls, k))]
    /\ CallsFrame

NextCalls ==
    ParseLogsStep \/ GroupErrorsStep \/ AnalyzePythonStep \/ AnalyzeJavaKotlinStep \/ CallReturns
SpecCalls == InitCalls /\ [][NextCalls]_vars

\* C17: two invocations of parse_logs, group_errors or analyze_code whose
\* steps are interleaved in any order each return what they return when run
\* alone, and a step of one invocation leaves the frame of the other (its
\* current entry, trace buffer, brace depth, context flags, catch and except
\* buffers) as it was.
C17_InvocationsIndependent ==
    /\ [](\A k \in DOMAIN calls :
            calls[k].done => calls[k].returned = AloneResult(calls[k].inv))
    /\ [][\A k \in DOMAIN calls :
            calls'[k] # calls[k] => \A j \in DOMAIN calls \ {k} : calls'[j] = calls[j]]_vars
\* both calls have returned after steps of the second came between steps of
\* the first, two calls of the same function on different arguments
C17_Witness ==
    /\ Len(calls) = 2
    /\ calls[1].done /\ calls[2].done
    /\ calls[1].overlapped /\ calls[2].overlapped
    /\ calls[1].inv.fn = calls[2].inv.fn
    /\ calls[1].inv # calls[2].inv
    /\ calls[1].returned # calls[2].returned


---------------------------------------------------------------------------
(* Claims about the entries parse_logs emits                               *)

\* the output list after a step is the list before it, or that list with one
\* entry more at its end
ExtendedByOne(before, after) ==
    /\ Len(after) = Len(before) + 1
    /\ SubSeq(after, 1, Len(before)) = before

\* C18: during parse_logs an emitted entry is never changed, removed or
\* reordered by a later line: each step leaves the output list unchanged or
\* extends it by exactly one entry at the end, and a stack-trace or
\* continuation line leaves the output list as it is (it changes only the
\* entry in progress and its trace buffer).
C18_EmittedEntriesFrozen ==
    [][/\ entries' = entries \/ ExtendedByOne(entries, entries')
       /\ (InLoop /\ BranchOf(CurState, CurLine, CurParsed)
                        \in {"stack_trace", "continuation_trace", "continuation_message"})
          => entries' = entries]_vars
\* an entry was emitted, and lines that continue the next entry came after it
C18_Witness ==
    /\ pc = "parse"
    /\ Len(entries) >= 1
    /\ current_entry # NoEntry
    /\ current_stack_trace # <<>>
    /\ idx = 3


\* a line that is not blank and not a stack-trace line, a line that carries a
\* timestamp or a level, a line that is appended to the message of the entry
\* in progress
HasContent(line) == Strip(line) # "" /\ ~ParsedLogLines[line].is_stack_trace
CarriesStamp(line) ==
    HasContent(line)
    /\ (ParsedLogLines[line].timestamp # None \/ ParsedLogLines[line].level # None)
JoinsMessage(line) ==
    HasContent(line) /\ ~CarriesStamp(line)
    /\ ~(StartsWith(line, "  ") \/ StartsWith(line, "\t"))
\* the lines of ls that start an entry: those that carry a timestamp or a
\* level, and the first line with content when it carries neither
StartsEntry(ls, k) ==
    \/ CarriesStamp(ls[k])
    \/ HasContent(ls[k]) /\ \A j \in 1..(k - 1) : ~HasContent(ls[j])
StartLines(ls) == {k \in DOMAIN ls : StartsEntry(ls, k)}
\* the message of the entry started at line k once the lines up to n are read
RECURSIVE AccumulatedFrom(_, _, _, _)
AccumulatedFrom(ls, j, n, message) ==
    IF j > n \/ StartsEntry(ls, j) THEN message
    ELSE AccumulatedFrom(ls, j + 1, n,
            IF JoinsMessage(ls[j]) THEN message \o " " \o ParsedLogLines[ls[j]].message
            ELSE message)
Accumulated(ls, k, n) == AccumulatedFrom(ls, k + 1, n, ParsedLogLines[ls[k]].message)
\* the started entries among the first n lines, in the order of their lines
\* (an entry started by a line without timestamp and level takes only the
\* line's message)
RECURSIVE StartedFrom(_, _, _)
StartedFrom(ls, k, n) ==
    IF k > n THEN <<>>
    ELSE IF StartsEntry(ls, k)
    THEN <<[line |-> k, timestamp |-> ParsedLogLines[ls[k]].timestamp,
            level |-> ParsedLogLines[ls[k]].level,
            source |-> IF CarriesStamp(ls[k]) THEN ParsedLogLines[ls[k]].source ELSE None,
            message |-> Accumulated(ls, k, n)]>> \o StartedFrom(ls, k + 1, n)
    ELSE StartedFrom(ls, k + 1, n)
WithMessage(started) == SelectSeq(started, LAMBDA e : e.message # "")
\* an emitted entry is the started entry e
EmittedIs(entry, e) ==
    /\ entry.message = e.message
    /\ entry.source = e.source
    /\ entry.level = (IF e.level # None THEN e.level ELSE "INFO")
    /\ entry.timestamp = (IF e.timestamp # None THEN e.timestamp ELSE UtcNow)
EmittedAre(es, started) ==
    /\ Len(es) = Len(started)
    /\ \A k \in DOMAIN es : EmittedIs(es[k], started[k])
AllButLast(s) == SubSeq(s, 1, Len(s) - 1)

\* the entries emitted once n lines are read are the started entries with a
\* message, the last started one still being in progress
EmittedInLoop(ls, n, started) ==
    /\ EmittedAre(entries, WithMessage(AllButLast(started)))
    /\ (started = <<>>) = (current_entry = NoEntry)
    /\ started # <<>> => current_entry.message = started[Len(started)].message

\* C19: in parse_logs a line with content that is not a stack-trace line and
\* carries a timestamp or a level closes the entry in progress and starts a
\* new one with that line's timestamp, level, source and message; the
\* emitted entries are exactly the started entries whose accumulated message
\* is not empty, in the order of their starting lines, the entry in progress
\* at the end of the input included.
C19_StartedEntriesEmitted ==
    /\ [](pc = "parse" => EmittedInLoop(lines, idx, StartedFrom(lines, 1, idx)))
    /\ [](pc # "parse" /\ lines # <<>> =>
            EmittedAre(entries, WithMessage(StartedFrom(lines, 1, Len(lines)))))
    /\ [][(InLoop /\ CarriesStamp(CurLine)) =>
            /\ entries' = finalize_entry(CurState).entries
            /\ current_stack_trace' = <<>>
            /\ current_entry' = [timestamp |-> CurParsed.timestamp, level |-> CurParsed.level,
                                 source |-> CurParsed.source, message |-> CurParsed.message]]_vars
\* the input is read to its end: an entry with a message was closed and
\* emitted by the line that started the next, a started entry without any
\* message was dropped, and the entry in progress at the end was emitted
C19_Witness ==
    /\ pc = "parsed"
    /\ Len(lines) = 3
    /\ Len(StartedFrom(lines, 1, 3)) = 3
    /\ Len(entries) = 2
    /\ CarriesStamp(lines[3])


\* leading whitespace of any kind: one space is enough
HasLeadingWhitespace(line) == line # "" /\ Char(line, 1) \in {" ", "\t"}

\* C20: in parse_logs a line with neither timestamp nor level, read while an
\* entry is in progress, is appended to the trace buffer whenever it has any
\* leading whitespace (one space, several spaces or a tab), and is appended
\* to the message of the entry in progress, after a single space, only when
\* it has none; in neither case does it start or emit an entry.
C20_IndentedLinesToTrace ==
    [][(/\ InLoop
        /\ HasContent(CurLine) /\ ~CarriesStamp(CurLine)
        /\ current_entry # NoEntry) =>
          /\ entries' = entries
          /\ IF HasLeadingWhitespace(CurLine)
             THEN /\ current_stack_trace' = Append(current_stack_trace, Strip(CurLine))
                  /\ current_entry' = current_entry
             ELSE /\ current_stack_trace' = current_stack_trace
                  /\ current_entry' =
                        [current_entry EXCEPT !.message = @ \o " " \o CurParsed.message]]_vars


\* a line that goes to the trace buffer of the entry in progress: a
\* stack-trace line, or a continuation line indented as line 99 wants it
IsTraceLine(line) ==
    \/ Strip(line) # "" /\ ParsedLogLines[line].is_stack_trace
    \/ HasContent(line) /\ ~CarriesStamp(line)
       /\ (StartsWith(line, "  ") \/ StartsWith(line, "\t"))
\* the trace lines after the starting line k and before the next starting
\* line, stripped, in input order
RECURSIVE TraceLinesFrom(_, _)
TraceLinesFrom(ls, j) ==
    IF j > Len(ls) \/ StartsEntry(ls, j) THEN <<>>
    ELSE IF IsTraceLine(ls[j]) THEN <<Strip(ls[j])>> \o TraceLinesFrom(ls, j + 1)
    ELSE TraceLinesFrom(ls, j + 1)
TraceAfter(ls, k) == TraceLinesFrom(ls, k + 1)
StackTraceIs(entry, trace) ==
    entry.stackTrace = (IF trace = <<>> THEN None ELSE Join("\n", trace))

\* C21: the stackTrace of every entry parse_logs emits consists exactly of
\* the stack-trace and indented continuation lines that stand after the
\* entry's starting line and before the starting line of the next entry, in
\* input order, and is absent when there are none; a stack-trace line read
\* while no entry is in progress is not attached to an entry that starts
\* after it.
C21_TraceBelongsToEntry ==
    (pc # "parse" /\ lines # <<>>) =>
        \A k \in DOMAIN entries :
            k <= Len(WithMessage(StartedFrom(lines, 1, Len(lines)))) =>
                StackTraceIs(entries[k],
                    TraceAfter(lines, WithMessage(StartedFrom(lines, 1, Len(lines)))[k].line))


---------------------------------------------------------------------------
(* analyze_java_kotlin applied to the lines of a controller class          *)

MaxHandlerLines == 4

InitHandler ==
    /\ LogIdle /\ FpIdle /\ SvcIdle
    /\ code_lines \in SeqsOf(HandlerLines, 1, MaxHandlerLines)
    /\ language \in {"java", "kotlin"}
    /\ i_line = 0
    /\ findings = <<>>
    /\ scan = JkLocals(JkStart)
    /\ analysis = None
    /\ spc = "scan"
SpecHandler == InitHandler /\ [][NextJava]_vars

\* line j sets a context flag in a pass of this language (lines 104-108)
MatchesPattern(j) ==
    \/ JkLineFacts[code_lines[j]].handler
    \/ language = "kotlin" /\ JkLineFacts[code_lines[j]].suspend
\* line j opens the body of a function whose signature, or whose annotation
\* on the line before, matched a pattern
OpensMatched(j) ==
    /\ Contains(code_lines[j], "{")
    /\ \/ MatchesPattern(j)
       \/ j > 1 /\ MatchesPattern(j - 1) /\ ~Contains(code_lines[j - 1], "{")
\* line k lies between the opening line j and the line that closes its brace
InFunction(j, k) == j <= k /\ \A m \in j..(k - 1) : DepthAfter(m) >= DepthAfter(j)
\* line k belongs to a matched function: its annotation, its signature, its
\* body or its closing line
InMatchedFunction(k) ==
    \/ MatchesPattern(k)
    \/ \E j \in 1..k : OpensMatched(j) /\ InFunction(j, k)
\* line k lies strictly inside the braces of a matched function
InMatchedBody(k) ==
    \E j \in 1..(k - 1) : OpensMatched(j) /\ \A m \in j..k : DepthAfter(m) >= DepthAfter(j)
IsBlockingCall(k) ==
    JkLineFacts[code_lines[k]].execute \/ JkLineFacts[code_lines[k]].sleep
IsJkBlockingFinding(f, k) ==
    f.line = k /\ f.category = "blocking"
    /\ f.rule_id \in {Upper(language) \o "_BLOCKING_IO", Upper(language) \o "_THREAD_SLEEP"}
NonNegativeDepth == \A k \in 1..i_line : DepthAfter(k) >= 0

\* C22: the context flags of the Java/Kotlin scan mark a lexical region. When
\* in_request_handler or in_suspend_function is true while a line is checked,
\* the line lies in a function whose signature or annotation matched a
\* pattern; a '.execute(' or 'Thread.sleep(' call in the body of such a
\* function yields a HIGH blocking finding at its line, also when the
\* annotation stands on its own line at brace depth zero; the same call
\* outside every matched function yields none.
C22_FlagsMarkFunctionBody ==
    (i_line >= 1 /\ NonNegativeDepth) =>
        /\ (scan.in_request_handler \/ scan.in_suspend_function) => InMatchedFunction(i_line)
        /\ (IsBlockingCall(i_line) /\ InMatchedBody(i_line)) =>
              \E n \in DOMAIN findings :
                  IsJkBlockingFinding(findings[n], i_line) /\ findings[n].severity = "HIGH"
        /\ (IsBlockingCall(i_line) /\ ~InMatchedFunction(i_line)) =>
              ~\E n \in DOMAIN findings : IsJkBlockingFinding(findings[n], i_line)


\* a line that holds a statement once its comments are removed
HoldsStatement ==
    [l \in JavaLines |-> Strip(Sub(LineCommentRe, "", l)) \notin {"", "{", "}"}]
\* line m lies in the block that the catch clause of line k opens
InCatchBody(k, m) == k < m /\ \A n \in k..m : DepthAfter(n) >= DepthAfter(k)
CatchBodyHoldsStatement(k) ==
    \E m \in DOMAIN code_lines : InCatchBody(k, m) /\ HoldsStatement[code_lines[m]]

\* C23: an EMPTY_CATCH finding is emitted for a catch clause only if the body
\* of its block, after comments are removed, contains no statement; a catch
\* block whose body holds one or several statements is never reported.
C23_NonEmptyCatchNotReported ==
    (spc = "returned" /\ Balanced) =>
        \A j \in DOMAIN findings :
            findings[j].rule_id = Upper(language) \o "_EMPTY_CATCH" =>
                ~CatchBodyHoldsStatement(findings[j].line)


---------------------------------------------------------------------------
(* analyze_java_kotlin applied to lines around a response assignment       *)

MaxLeakLines == 5

InitLeak ==
    /\ LogIdle /\ FpIdle /\ SvcIdle
    /\ code_lines \in SeqsOf(LeakLines, 1, MaxLeakLines)
    /\ language \in {"java", "kotlin"}
    /\ i_line = 0
    /\ findings = <<>>
    /\ scan = JkLocals(JkStart)
    /\ analysis = None
    /\ spc = "scan"
SpecLeak == InitLeak /\ [][NextJava]_vars

\* the lines that hold a 'try (' resource acquisition
AcquiresResource == [l \in LeakLines |-> Search(TryWithRe, l)]
\* one of the up to three lines before line k acquires a resource
AcquiredBefore(k) ==
    \E m \in Max(1, k - 3)..(k - 1) : AcquiresResource[code_lines[m]]
LeakFindingsAt(k) ==
    {j \in DOMAIN findings :
        findings[j].rule_id = "JAVA_RESOURCE_LEAK" /\ findings[j].line = k}

\* C24: in a Java pass every line with a response-like assignment for which
\* none of the up to three preceding lines holds a 'try (' acquisition yields
\* exactly one JAVA_RESOURCE_LEAK finding at that line, of severity MEDIUM and
\* category error-handling; a line with such an acquisition before it yields
\* none; a Kotlin pass never emits the finding.
C24_ResourceLeakMedium ==
    spc = "returned" =>
        \A k \in DOMAIN code_lines :
            IF language = "java" /\ JkLineFacts[code_lines[k]].response /\ ~AcquiredBefore(k)
            THEN /\ Cardinality(LeakFindingsAt(k)) = 1
                 /\ \A j \in LeakFindingsAt(k) :
                        findings[j].severity = "MEDIUM" /\ findings[j].category = "error-handling"
            ELSE LeakFindingsAt(k) = {}


---------------------------------------------------------------------------
(* analyze_python applied to async functions at module and class level     *)

MaxAsyncLines == 4

InitAsync ==
    /\ LogIdle /\ FpIdle /\ SvcIdle
    /\ code_lines \in SeqsOf(AsyncLines, 1, MaxAsyncLines)
    /\ language = "python"
    /\ i_line = 0
    /\ findings = <<>>
    /\ scan = PyLocals(PyStart)
    /\ analysis = None
    /\ spc = "scan"
SpecAsync == InitAsync /\ [][NextPython]_vars

IsAsyncDef(k) == PyLineFacts[code_lines[k]].async_def_s
\* line m ends the region of the 'async def' of line a: it is not blank, not
\* a comment, not an 'async def', and indented at most as far as line a
EndsAsyncRegion(a, m) ==
    /\ a < m
    /\ PyLineFacts[code_lines[m]].trimmed # ""
    /\ ~PyLineFacts[code_lines[m]].comment
    /\ ~PyLineFacts[code_lines[m]].async_def
    /\ PyLineFacts[code_lines[m]].indent <= PyLineFacts[code_lines[a]].indent
\* line n stands at or after the end of the region of the only 'async def'
AfterAsyncRegion(n) ==
    \E a \in 1..n :
        /\ IsAsyncDef(a)
        /\ \A b \in 1..n : IsAsyncDef(b) => b = a
        /\ \E m \in (a + 1)..n : EndsAsyncRegion(a, m)

\* C25: the region of an 'async def' line at any indentation k ends at the
\* first later line that is not blank, not a comment, not an 'async def' and
\* indented at most k; a blocking call on that line or on a later one yields
\* no PY_BLOCKING_IN_ASYNC finding.
C25_AsyncRegionEnds ==
    (i_line >= 1 /\ AfterAsyncRegion(i_line)) =>
        /\ ~scan.in_async_function
        /\ \A j \in DOMAIN findings :
               findings[j].rule_id = "PY_BLOCKING_IN_ASYNC" => findings[j].line # i_line


---------------------------------------------------------------------------
(* analyze_python applied to the lines of a try statement                  *)

MaxExceptLines == 4

InitExcept ==
    /\ LogIdle /\ FpIdle /\ SvcIdle
    /\ code_lines \in SeqsOf(ExceptLines, 1, MaxExceptLines)
    /\ language = "python"
    /\ i_line = 0
    /\ findings = <<>>
    /\ scan = PyLocals(PyStart)
    /\ analysis = None
    /\ spc = "scan"
SpecExcept == InitExcept /\ [][NextPython]_vars

IsExceptLine(k) == PyLineFacts[code_lines[k]].is_except
\* line m belongs to the body of the except clause of line k: every line
\* from k + 1 to m is blank or indented deeper than the except line
InExceptBlock(k, m) ==
    /\ k < m /\ m \in DOMAIN code_lines
    /\ \A n \in (k + 1)..m :
          \/ PyLineFacts[code_lines[n]].trimmed = ""
          \/ PyLineFacts[code_lines[n]].indent > PyLineFacts[code_lines[k]].indent
\* the statements of the body of the except clause of line k
ExceptBodyOf(k) ==
    {m \in DOMAIN code_lines :
        /\ InExceptBlock(k, m)
        /\ PyLineFacts[code_lines[m]].trimmed # ""
        /\ ~PyLineFacts[code_lines[m]].comment}
BodyIsPass(k) ==
    /\ Cardinality(ExceptBodyOf(k)) = 1
    /\ \A m \in ExceptBodyOf(k) : PyLineFacts[code_lines[m]].trimmed = "pass"
SilentFindingsAt(k) ==
    {j \in DOMAIN findings :
        findings[j].rule_id = "PY_SILENT_EXCEPT" /\ findings[j].line = k}

\* C26: every except clause whose body is exactly the statement 'pass' yields
\* exactly one PY_SILENT_EXCEPT finding, HIGH and error-handling, at the
\* number of the except line, and an except clause with any other body yields
\* none; also when the last line of the block is the last line of the input,
\* when another except clause at the same indentation follows directly, and
\* when a blank line stands between the except line and the pass.
C26_SilentExceptFound ==
    spc = "returned" =>
        \A k \in DOMAIN code_lines :
            IF IsExceptLine(k) /\ BodyIsPass(k)
            THEN /\ Cardinality(SilentFindingsAt(k)) = 1
                 /\ \A j \in SilentFindingsAt(k) :
                        findings[j].severity = "HIGH" /\ findings[j].category = "error-handling"
            ELSE SilentFindingsAt(k) = {}


---------------------------------------------------------------------------
(* api/code_analyzer.py: convert_to_ui_format, as scan_code calls it       *)

MaxUiFindings == 3

\* findings of every category and severity a RiskFinding can carry
UiFindings ==
    {PyBlockingFinding(1, 2),
     RiskFinding("JAVA_EMPTY_CATCH", "HIGH", "error-handling",
                 "Empty catch block swallows exception", 1, "why", "fix"),
     RiskFinding("PY_BROAD_EXCEPT", "MEDIUM", "error-handling",
                 "Broad exception catch (except Exception)", 3, "why", "fix"),
     RiskFinding("JAVA_NULL_BODY_ACCESS", "MEDIUM", "safety",
                 "Response body accessed without null check", 4, "why", "fix"),
     RiskFinding("SHARED_STATE", "LOW", "thread-safety",
                 "Shared 'cache' written without a lock", 5, "why", "fix"),
     RiskFinding("QUERY_IN_LOOP", "LOW", "performance",
                 "Query inside a loop", 6, "why", "fix")}

\* lines 330-335
UiRisk(finding) ==
    [line        |-> finding.line,
     type        |-> IF Contains(finding.message, "'")
                     THEN Strip(Split(finding.message, "'")[1])
                     ELSE Take(finding.message, 30),
     description |-> finding.message,
     severity    |-> Lower(finding.severity)]
UiRiskOf == [f \in UiFindings |-> UiRisk(f)]

\* a routing that has no branch for the category 'safety'
UiListOfWithoutSafety(category) ==
    CASE category = "blocking"       -> "blocking_calls"
      [] category = "thread-safety"  -> "thread_safety_risks"
      [] category = "error-handling" -> "error_handling_gaps"
      [] category = "performance"    -> "performance_concerns"
      [] OTHER                       -> "none"
\* lines 337-346: the list a finding of this category is appended to
UiListOf(category) ==
    CASE category = "blocking"       -> "blocking_calls"
      [] category = "thread-safety"  -> "thread_safety_risks"
      [] category = "error-handling" -> "error_handling_gaps"
      [] category = "performance"    -> "performance_concerns"
      [] category = "safety"         -> "error_handling_gaps"
      [] OTHER                       -> "none"

\* lines 324-327
UiStart ==
    [blocking_calls |-> <<>>, thread_safety_risks |-> <<>>,
     error_handling_gaps |-> <<>>, performance_concerns |-> <<>>]
\* lines 329-346: one iteration of the loop
UiAppend(lists, finding) ==
    [name \in DOMAIN lists |->
        IF name = UiListOf(finding.category)
        THEN Append(lists[name], UiRiskOf[finding])
        ELSE lists[name]]
RECURSIVE UiLoop(_, _, _)
UiLoop(lists, fs, k) ==
    IF k > Len(fs) THEN lists ELSE UiLoop(UiAppend(lists, fs[k]), fs, k + 1)
HasCategory(fs, category) == \E k \in DOMAIN fs : fs[k].category = category
\* lines 348-357
best_practices(fs) ==
    CHOOSE r \in {IF found = <<>>
                  THEN <<"No specific issues detected. Consider running additional static analysis tools.">>
                  ELSE found :
                    found \in {Values(Appended(<<
                        When(HasCategory(fs, "blocking"),
                             "Use asynchronous APIs for I/O operations to avoid blocking."),
                        When(HasCategory(fs, "error-handling"),
                             "Always handle exceptions explicitly and log relevant context."),
                        When(HasCategory(fs, "safety"),
                             "Add null checks and validate inputs before use.")>>))}} : TRUE
\* lines 359-365
UiFormat(lists, fs) ==
    [blockingCalls       |-> lists.blocking_calls,
     threadSafetyRisks   |-> lists.thread_safety_risks,
     errorHandlingGaps   |-> lists.error_handling_gaps,
     performanceConcerns |-> lists.performance_concerns,
     bestPractices       |-> best_practices(fs)]
convert_to_ui_format(fs) == UiFormat(UiLoop(UiStart, fs, 1), fs)

InitUi ==
    /\ LogIdle /\ FpIdle /\ SvcIdle
    /\ code_lines = <<>>
    /\ language = "unknown"
    /\ findings \in SeqsOf(UiFindings, 0, MaxUiFindings)
    /\ i_line = 0
    /\ scan = UiStart
    /\ analysis = None
    /\ spc = "convert"

\* for finding in result.findings: one iteration
ConvertFinding ==
    /\ spc = "convert"
    /\ i_line < Len(findings)
    /\ scan' = UiAppend(scan, findings[i_line + 1])
    /\ i_line' = i_line + 1
    /\ UNCHANGED <<code_lines, language, findings, analysis, spc, logvars, fpvars, svcvars>>
\* the best practices are derived and the dictionary is returned
ConvertReturn ==
    /\ spc = "convert"
    /\ i_line = Len(findings)
    /\ analysis' = UiFormat(scan, findings)
    /\ spc' = "converted"
    /\ UNCHANGED <<code_lines, language, findings, i_line, scan, logvars, fpvars, svcvars>>
NextUi == ConvertFinding \/ ConvertReturn
SpecUi == InitUi /\ [][NextUi]_vars

\* the findings of the given categories, in the order of the input
RECURSIVE OfCategories(_, _)
OfCategories(fs, cats) ==
    IF fs = <<>> THEN <<>>
    ELSE (IF Head(fs).category \in cats THEN <<Head(fs)>> ELSE <<>>)
         \o OfCategories(Tail(fs), cats)
\* the list holds one item per finding, in order, with line and severity
Projects(list, fs) ==
    /\ Len(list) = Len(fs)
    /\ \A k \in DOMAIN fs :
          list[k].line = fs[k].line /\ list[k].severity = Lower(fs[k].severity)

\* C27: convert_to_ui_format is a projection of the findings: each of the
\* four lists holds the findings of its categories ('safety' goes to
\* errorHandlingGaps together with 'error-handling'), one item per finding,
\* in the order of the findings, with the line unchanged and the severity in
\* lower case; the four lists together hold as many items as there are
\* findings; bestPractices is never empty.
C27_UiFormatProjects ==
    spc = "converted" =>
        /\ Projects(analysis.blockingCalls, OfCategories(findings, {"blocking"}))
        /\ Projects(analysis.threadSafetyRisks, OfCategories(findings, {"thread-safety"}))
        /\ Projects(analysis.errorHandlingGaps,
                    OfCategories(findings, {"error-handling", "safety"}))
        /\ Projects(analysis.performanceConcerns, OfCategories(findings, {"performance"}))
        /\ Len(analysis.blockingCalls) + Len(analysis.threadSafetyRisks)
             + Len(analysis.errorHandlingGaps) + Len(analysis.performanceConcerns)
           = Len(findings)
        /\ analysis.bestPractices # <<>>
        /\ analysis = convert_to_ui_format(findings)
\* a safety finding between two error-handling findings has been converted
C27_Witness ==
    /\ spc = "converted"
    /\ Len(findings) = 3
    /\ findings[1].category = "error-handling" /\ findings[2].category = "safety"
    /\ findings[3].category = "error-handling" /\ findings[1] # findings[3]
    /\ Len(analysis.errorHandlingGaps) = 3


---------------------------------------------------------------------------
(* group_errors applied to a log in which every error has its own message  *)

MaxLabelLogs == 27

\* the message of the k-th error: two letters, no digits
LabelMessage(k) == "job " \o Chr(97 + ((k - 1) \div 6)) \o Chr(97 + ((k - 1) % 6))
\* n errors with different messages, of which the one at position fatal is
\* FATAL (none when fatal = 0)
LabelLogs(n, fatal) ==
    [k \in 1..n |->
        [id |-> k, timestamp |-> "2024-01-01T10:00:00Z",
         level |-> IF k = fatal THEN "FATAL" ELSE "ERROR",
         message |-> LabelMessage(k), source |-> "db", stackTrace |-> None]]

InitLabel ==
    /\ lines = <<>> /\ idx = 0 /\ current_entry = NoEntry /\ current_stack_trace = <<>>
    /\ \E n \in 1..MaxLabelLogs, fatal \in 0..MaxLabelLogs :
          fatal <= n /\ entries = LabelLogs(n, fatal)
    /\ result = None
    /\ pc = "parsed"
    /\ FpIdle /\ ScanIdle /\ SvcIdle
SpecLabel == InitLabel /\ [][NextGroup]_vars

LetterLabels == {"Error Group " \o Char(UpperStr, k) : k \in 1..26}

\* C28: the groups are labelled in the order in which they were created,
\* 'Error Group ' followed by the k-th upper-case letter, whatever the final
\* sort does; for any number of groups the labels are pairwise distinct and
\* end in a letter from A to Z.
C28_LabelsAreLetters ==
    pc = "done" =>
        /\ \A g \in DOMAIN result :
              /\ result[g].label \in LetterLabels
              /\ result[g].id <= 26 =>
                    result[g].label = "Error Group " \o Char(UpperStr, result[g].id)
        /\ \A g, h \in DOMAIN result : g # h => result[g].label # result[h].label


---------------------------------------------------------------------------
(* group_errors applied to errors of one fingerprint with equal and unequal *)
(* timestamps                                                              *)

MaxOccurLogs == 4

\* errors that differ only in the digits after '#', two of them with the
\* same timestamp, one with milliseconds, and an error of another group
OccurKinds ==
    {[timestamp |-> "2024-01-01T10:00:05Z", level |-> "ERROR",
      message |-> "timeout #12", source |-> None, stackTrace |-> None],
     [timestamp |-> "2024-01-01T10:00:00Z", level |-> "ERROR",
      message |-> "timeout #7", source |-> None, stackTrace |-> None],
     [timestamp |-> "2024-01-01T10:00:00Z", level |-> "ERROR",
      message |-> "timeout #9", source |-> None, stackTrace |-> None],
     [timestamp |-> "2024-01-01T10:00:00.500Z", level |-> "ERROR",
      message |-> "timeout #3", source |-> None, stackTrace |-> None],
     [timestamp |-> "2024-01-01T10:00:03Z", level |-> "FATAL",
      message |-> "disk full", source |-> "db", stackTrace |-> None]}

InitOccur ==
    /\ lines = <<>> /\ idx = 0 /\ current_entry = NoEntry /\ current_stack_trace = <<>>
    /\ entries \in {WithIds(ks) : ks \in SeqsOf(OccurKinds, 0, MaxOccurLogs)}
    /\ result = None
    /\ pc = "parsed"
    /\ FpIdle /\ ScanIdle /\ SvcIdle
SpecOccur == InitOccur /\ [][NextGroup]_vars

\* the positions in the input of the members of group g
GroupMembers(g) == {result[g].relatedLogIds[k] : k \in DOMAIN result[g].relatedLogIds}
\* the members that carry the smallest timestamp of the group
EarliestOf(g) ==
    {m \in GroupMembers(g) :
        \A n \in GroupMembers(g) : ~StrLess(entries[n].timestamp, entries[m].timestamp)}
FirstOf(S) == CHOOSE m \in S : \A n \in S : m <= n

---------------------------------------------------------------------------
(* api/main.py: analyze_logs, several requests in flight on one event loop *)

MaxRequests == 3

\* request.rawLogs, split into lines
RequestLogs ==
    {<<PaymentLine("2024-01-01T10:00:00Z", "4521"), PaymentLine("2024-01-01T10:00:05Z", "9983")>>,
     <<"WARN low disk", "retrying">>}
\* lines 68 and 72 on every input of the model, computed once
AnalyzedLogs ==
    [ls \in RequestLogs |->
        CHOOSE r \in {[parsed_logs |-> p, error_groups |-> group_errors(p)] :
                         p \in {parse_logs_lines(ls)}} : TRUE]
\* what analyze_with_llm of line 76 returns: the fallback, or the analysis
\* converted from the model's reply
LlmOutcomes(logs, error_groups) ==
    {LlmReturn(generate_fallback_analysis(logs, error_groups), TRUE),
     LlmReturn(LlmAnalysis("ok", <<>>, <<>>, <<>>), FALSE)}
\* str(e) of an exception that leaves the try block
ErrorTexts == {"connection pool exhausted"}

\* the same id for every request
SameAnalysisId(n) == 1
\* line 63: str(uuid.uuid4()), written as the number of the call that drew it
NewAnalysisId(n) == n

\* AnalyzeLogsResponse with every field of the schema
Response(id, createdAt, status, parsedLogs, errorGroups, a, error, usedFallback) ==
    [id |-> id, createdAt |-> createdAt, status |-> status, parsedLogs |-> parsedLogs,
     errorGroups |-> errorGroups, analysis |-> a, error |-> error,
     usedFallback |-> usedFallback]
\* the locals of one run of the handler, and where it stands
Handler(at, rawLogs, analysis_id, created_at, parsed_logs, error_groups) ==
    [pc |-> at, rawLogs |-> rawLogs, analysis_id |-> analysis_id, created_at |-> created_at,
     parsed_logs |-> parsed_logs, error_groups |-> error_groups]
AnalyzeFrame == UNCHANGED <<logvars, fpvars, scanvars, runs, llm, tool>>

InitAnalyze ==
    /\ LogIdle /\ FpIdle /\ ScanIdle
    /\ runs = <<>> /\ llm = [pc |-> "idle"]
    /\ tool = [op |-> "idle"] /\ calls = <<>>
    /\ store = StoreState("init", <<>>, <<>>, "", <<>>)

\* lines 61-76: a request arrives; its handler draws an id, parses, groups
\* and waits for analyze_with_llm
ReceiveRequest ==
    /\ Len(calls) < MaxRequests
    /\ \E ls \in RequestLogs :
          calls' = Append(calls,
                          Handler("awaiting", ls, NewAnalysisId(Len(calls) + 1), UtcNow,
                                  AnalyzedLogs[ls].parsed_logs, AnalyzedLogs[ls].error_groups))
    /\ UNCHANGED store
    /\ AnalyzeFrame
\* storage.save_analysis(response), awaited without a suspension
SaveResponse(k, response, at) ==
    /\ store' = StoreState("save_analysis", DictSet(store.analyses, response),
                           Append(store.saved, response), response.id, <<response>>)
    /\ calls' = [calls EXCEPT ![k].pc = at]
    /\ AnalyzeFrame
\* lines 76-90: analyze_with_llm returns; the response is built, saved and
\* returned
AnalyzeCompletes ==
    \E k \in DOMAIN calls :
        /\ calls[k].pc = "awaiting"
        /\ \E out \in LlmOutcomes(calls[k].parsed_logs, calls[k].error_groups) :
              SaveResponse(k,
                  Response(calls[k].analysis_id, calls[k].created_at, "completed",
                           calls[k].parsed_logs, calls[k].error_groups,
                           out.analysis, None, out.used_fallback),
                  "returned")
\* lines 92-107: an exception leaves the try block; the failed response is
\* built and saved and HTTPException(500) is raised
AnalyzeFails ==
    \E k \in DOMAIN calls :
        /\ calls[k].pc = "awaiting"
        /\ \E e \in ErrorTexts :
              SaveResponse(k,
                  Response(calls[k].analysis_id, calls[k].created_at, "failed",
                           <<>>, <<>>, None, e, FALSE),
                  "raised")
NextAnalyze == ReceiveRequest \/ AnalyzeCompletes \/ AnalyzeFails
SpecAnalyze == InitAnalyze /\ [][NextAnalyze]_vars

\* the records the store holds for request k
RecordsOf(k) ==
    {n \in DOMAIN store.analyses : store.analyses[n].id = calls[k].analysis_id}
FinishedRequests == {k \in DOMAIN calls : calls[k].pc \in {"returned", "raised"}}

\* C30: after any sequence of /api/analyze requests, their handlers
\* interleaved while they wait for the language model, the store holds
\* exactly one record per finished request, under the id of that request:
\* 'completed' with the parsed entries and the groups of its own logs when the
\* analysis succeeded, 'failed' with empty lists and the error text when it
\* raised; no record has status 'processing', and no save replaces the record
\* of another request.
C30_OneRecordPerRequest ==
    /\ Len(store.analyses) = Cardinality(FinishedRequests)
    /\ Len(store.saved) = Cardinality(FinishedRequests)
    /\ \A k \in DOMAIN calls :
          Cardinality(RecordsOf(k)) = IF k \in FinishedRequests THEN 1 ELSE 0
    /\ \A k \in FinishedRequests : \A n \in RecordsOf(k) :
          IF calls[k].pc = "returned"
          THEN /\ store.analyses[n].status = "completed"
               /\ store.analyses[n].parsedLogs = AnalyzedLogs[calls[k].rawLogs].parsed_logs
               /\ store.analyses[n].errorGroups = AnalyzedLogs[calls[k].rawLogs].error_groups
          ELSE /\ store.analyses[n].status = "failed"
               /\ store.analyses[n].parsedLogs = <<>>
               /\ store.analyses[n].errorGroups = <<>>
               /\ store.analyses[n].error \in ErrorTexts
    /\ \A n \in DOMAIN store.analyses : store.analyses[n].status # "processing"
\* three requests were in flight together; the second finished first and
\* failed, the others completed on different logs
C30_Witness ==
    /\ Len(calls) = 3 /\ FinishedRequests = {1, 2, 3}
    /\ store.saved[1].id = calls[2].analysis_id /\ store.saved[1].status = "failed"
    /\ store.saved[2].id = calls[3].analysis_id /\ store.saved[2].status = "completed"
    /\ store.saved[3].id = calls[1].analysis_id /\ store.saved[3].status = "completed"
    /\ calls[1].rawLogs # calls[3].rawLogs
    /\ store.saved[3].errorGroups # <<>>

====
